---- MODULE Spec2Model ----
(***************************************************************************)
(* A model of sardana's acquisition orchestration,                         *)
(* src/src/sardana/pool/poolacquisition.py:                                *)
(*   - the pure configuration transforms (split_MGConfigurations,          *)
(*     getTGConfiguration, extract_integ_time),                            *)
(*   - PoolAcquisition: run, the trigger-event dispatch through the two    *)
(*     busy flags to the worker pool, and the dispatched cycles,           *)
(*   - the load/start sequence of the timer/monitor-driven acquisitions    *)
(*     (PoolAcquisitionBase, PoolCTAcquisition, PoolContHWAcquisition),    *)
(*   - the poll loops (action_loop) and their convergence,                 *)
(*   - Pool0DAcquisition: start_action, action_loop, stop and abort,       *)
(*   - PoolIORAcquisition: action_loop.                                    *)
(* Python's None is the string "None"; floats are modelled by naturals.    *)
(***************************************************************************)
EXTENDS Integers, Sequences, FiniteSets, TLC

VARIABLES
    \* ---- pure transforms ----
    pure_op,          \* which transform this behaviour applies
    pure_pc,          \* "input" | "done"
    synchronization,  \* input of extract_integ_time
    mg_cfg_in,        \* input of split_MGConfigurations
    integ_out,        \* result of extract_integ_time
    split_out,        \* result of split_MGConfigurations
    tg_in,            \* input of getTGConfiguration
    tg_out,           \* result of getTGConfiguration
    \* ---- PoolAcquisition (coordinator, busy flags, worker pool) ----
    sw_acq_config,    \* self._sw_acq_config
    zd_config,        \* self._0d_config
    sw_acq_busy,      \* self._sw_acq_busy (threading.Event)
    zd_acq_busy,      \* self._0d_acq_busy (threading.Event)
    ev,               \* per event source: the running event_received call
    nev,              \* trigger events delivered so far
    nruns,            \* calls of PoolAcquisition.run so far
    jobs,             \* the callables handed to the worker pool, in order
    sw_index,         \* PoolAcquisitionSoftware.index
    zd_stopped,       \* Pool0DAcquisition._stopped
    zd_aborted,       \* Pool0DAcquisition._aborted
    zd_conf_idx,      \* Pool0DAcquisition.conf['idx']
    hw_started,       \* run has started the hardware sub-acquisition
    tg_started,       \* run has started the trigger generator
    listener,         \* the coordinator listens to the trigger generator
    run_error,        \* the exception the last run raised, or "None"
    run_did,          \* what the last run did
    run_pc,           \* the position of a call of run followed step by step
    handled,          \* the calls of event_received that have returned
    \* ---- start_action of a timer/monitor-driven acquisition ----
    variant,          \* "Base" | "CT" | "ContHW"
    kw,               \* the keyword arguments of start_action
    st_pc,            \* position in start_action
    pool_ctrls,       \* the ordered controller list
    ci,               \* index into pool_ctrls of the running loop
    elements,         \* the element list of the controller being started
    calls,            \* the controller calls issued so far, in order
    chan_state,       \* the state of every channel element
    error,            \* the exception start_action raised, or "None"
    ctx,              \* the hardware access context of start_action is held
    chan_prop,        \* the propagate level of each channel's last set_state
    \* ---- the convergence at the end of an action_loop ----
    conv_in,          \* the variant, the final read and self.index
    conv_todo,        \* the elements of 'states' not iterated yet
    conv_cur,         \* the element of the running iteration
    conv_k,           \* the calls made on it so far
    conv_log,         \* the calls made on the elements, in order
    \* ---- action_loop of a poll loop ----
    lp_in,            \* the variant, nb_states_per_value, self.index, self._slaves
    lp_pc,            \* position in action_loop
    lp_i,             \* the iteration counter i
    hw_state,         \* the state each element's controller reports
    lp_stopped,       \* self._stopped
    lp_aborted,       \* self._aborted
    lp_sreads,        \* per state read of the loop, the elements found acquiring
    lp_vreads,        \* the values of i at which the values were read
    lp_pubs,          \* the values handed to put_value before the final read
    lp_stops,         \* the slaves asked to stop, in order, and what it raised
    lp_final,         \* the reads made after the loop, in order
    \* ---- Pool0DAcquisition ----
    zd_pc,            \* position in start_action / action_loop
    zd_in,            \* the keyword arguments of start_action
    zd_channels,      \* self._channels
    zd_todo,          \* the channels the running for loop has not reached yet
    zd_buffer,        \* each channel's accumulation buffer
    zd_chan,          \* each channel's state and the propagation it was set with
    zd_samples,       \* iterations of the loop so far
    zd_log,           \* the calls made on the channels in action_loop, in order
    \* ---- PoolIORAcquisition ----
    ior_pc,           \* position in action_loop
    ior_channels,     \* self._channels
    ior_i,            \* the iteration counter i, modulo 5
    ior_state,        \* the state each element's controller reports
    ior_log,          \* the calls made on the elements after the loop, in order
    ior_hook          \* the finish hook is registered

pureVars  == <<pure_op, pure_pc, synchronization, mg_cfg_in, integ_out, split_out,
               tg_in, tg_out>>
runVars   == <<hw_started, tg_started, listener, run_error, run_did, run_pc>>
gateVars  == <<sw_acq_config, zd_config, sw_acq_busy, zd_acq_busy, ev, nev,
               nruns, jobs, sw_index, zd_stopped, zd_aborted, zd_conf_idx,
               runVars, handled>>
startVars == <<variant, kw, st_pc, pool_ctrls, ci, elements, calls,
               chan_state, error, ctx, chan_prop>>
convVars  == <<conv_in, conv_todo, conv_cur, conv_k, conv_log>>
loopVars  == <<lp_in, lp_pc, lp_i, hw_state, lp_stopped, lp_aborted, lp_sreads,
               lp_vreads, lp_pubs, lp_stops, lp_final>>
zeroVars  == <<zd_pc, zd_in, zd_channels, zd_todo, zd_buffer, zd_chan, zd_samples,
               zd_log>>
iorVars   == <<ior_pc, ior_channels, ior_i, ior_state, ior_log, ior_hook>>
vars      == <<pureVars, gateVars, startVars, convVars, loopVars, zeroVars, iorVars>>

None == "None"

Range(s) == {s[i] : i \in DOMAIN s}

(***************************************************************************)
(*                       PURE TRANSFORMS                                   *)
(***************************************************************************)

\* Bounds of the synchronization descriptions tried.
MaxGroups  == 2
MaxRepeats == 3
ActiveTimes == {1, 2}

SynchGroups == [time : ActiveTimes, repeats : 1..MaxRepeats]

SeqsUpTo(S, n) == UNION {[1..k -> S] : k \in 0..n}

Synchronizations == SeqsUpTo(SynchGroups, MaxGroups)

\* [x] * n
Repeat(x, n) == [i \in 1..n |-> x]

\* The result of a call: a float, a list of floats, or the exception raised.
FloatResult(t) == [kind |-> "float", scalar |-> t, list |-> <<>>]
ListResult(l)  == [kind |-> "list", scalar |-> 0, list |-> l]
Raised(exc)    == [kind |-> exc, scalar |-> 0, list |-> <<>>]
NoResult       == [kind |-> None, scalar |-> 0, list |-> <<>>]

\* What the docstring of extract_integ_time promises for several groups.
RECURSIVE ConcatRepeats(_)
ConcatRepeats(synch) ==
    IF synch = <<>> THEN <<>>
    ELSE Repeat(Head(synch).time, Head(synch).repeats) \o ConcatRepeats(Tail(synch))

\* A variant that returns a list in the one-group case as well.
extract_integ_time_always_list(synch) ==
    IF Len(synch) = 1 THEN ListResult(Repeat(synch[1].time, synch[1].repeats))
    ELSE Raised("UnboundLocalError")

\* extract_integ_time: with one group the group's active time; otherwise the
\* loop's first "integ_time += ..." (or, with no group, the return) reads the
\* local integ_time, which was never assigned: UnboundLocalError.
extract_integ_time(synch) ==
    IF Len(synch) = 1 THEN FloatResult(synch[1].time)
    ELSE Raised("UnboundLocalError")

\* ---- split_MGConfigurations ----

\* The controllers of the measurement groups tried, with get_ctrl_types().
PCtrls == {"p1", "p2", "p3", "p4"}

get_ctrl_types(c) ==
    CASE c = "p1" -> <<"CTExpChannel">>
      [] c = "p2" -> <<"ZeroDExpChannel">>
      [] c = "p3" -> <<"CTExpChannel", "ZeroDExpChannel">>
      [] OTHER    -> <<"ZeroDExpChannel", "CTExpChannel">>

\* ctrl_info.get('trigger_element'): None, a software or a hardware trigger/gate.
TGElements == {None, "sw_tg", "hw_tg"}

is_software_tg(tg) == tg = "sw_tg"

CtrlInfos == [trigger_element : TGElements, timer : {"t1", "t2"}]

MGConfigs == UNION {[S -> CtrlInfos] : S \in SUBSET PCtrls}

Restrict(f, S) == [x \in S |-> f[x]]

\* A variant that routes by the trigger element alone.
route_by_trigger_only(ctrls_in, c) ==
    IF ctrls_in[c].trigger_element = None
       \/ is_software_tg(ctrls_in[c].trigger_element)
    THEN "sw" ELSE "hw"

\* The subset one controller entry is routed to (the loop body, lines 78-88).
route(ctrls_in, c) ==
    IF get_ctrl_types(c)[1] = "ZeroDExpChannel" THEN "0d"
    ELSE IF ctrls_in[c].trigger_element = None
            \/ is_software_tg(ctrls_in[c].trigger_element)
         THEN "sw" ELSE "hw"

\* The three output 'controllers' dictionaries; timer_sw/timer_hw is the
\* entry of "some" member (values()[0]) the caller's pick stands for.
split_MGConfigurations(ctrls_in, pick_sw, pick_hw) ==
    LET part(k) == Restrict(ctrls_in, {c \in DOMAIN ctrls_in : route(ctrls_in, c) = k})
    IN [hw |-> part("hw"), sw |-> part("sw"), zd |-> part("0d"),
        sw_timer |-> IF DOMAIN part("sw") # {} THEN part("sw")[pick_sw].timer ELSE None,
        hw_timer |-> IF DOMAIN part("hw") # {} THEN part("hw")[pick_hw].timer ELSE None]

NoSplit == [hw |-> <<>>, sw |-> <<>>, zd |-> <<>>, sw_timer |-> None, hw_timer |-> None]

\* ---- getTGConfiguration ----

\* Bound: the controllers of the configuration getTGConfiguration is given.
MaxTGCtrls == 3

\* The trigger/gate elements, and tgelem.get_controller().
TriggerGates == {"tg1", "tg2", "tg3"}

get_controller(tgelem) == IF tgelem \in {"tg1", "tg2"} THEN "tc1" ELSE "tc2"

\* MGcfg["controllers"] as the for loop of line 110 goes through it: the
\* 'trigger_element' of each controller entry (None: none or missing).
TGInputs == SeqsUpTo(TriggerGates \cup {None}, MaxTGCtrls)

\* A variant that appends the element of every controller.
RECURSIVE tg_element_list_repeated(_)
tg_element_list_repeated(ctrls) ==
    IF ctrls = <<>> THEN <<>>
    ELSE LET l == tg_element_list_repeated(SubSeq(ctrls, 1, Len(ctrls) - 1))
             tg_element == ctrls[Len(ctrls)]
         IN IF tg_element # None THEN Append(l, tg_element) ELSE l

\* Lines 108-113: _tg_element_list.
RECURSIVE tg_element_list(_)
tg_element_list(ctrls) ==
    IF ctrls = <<>> THEN <<>>
    ELSE LET l == tg_element_list(SubSeq(ctrls, 1, Len(ctrls) - 1))
             tg_element == ctrls[Len(ctrls)]
         IN IF tg_element # None /\ tg_element \notin Range(l)
            THEN Append(l, tg_element) ELSE l

\* Lines 116-122: ctrl_tgelem_dict, each controller with the list of its
\* elements in the order of _tg_element_list.
RECURSIVE ctrl_tgelem_dict(_)
ctrl_tgelem_dict(l) ==
    IF l = <<>> THEN <<>>
    ELSE LET d == ctrl_tgelem_dict(SubSeq(l, 1, Len(l) - 1))
             tgelem == l[Len(l)]
             tg_ctrl == get_controller(tgelem)
         IN IF tg_ctrl \notin DOMAIN d
            THEN [c \in DOMAIN d \cup {tg_ctrl} |->
                    IF c = tg_ctrl THEN <<tgelem>> ELSE d[c]]
            ELSE [d EXCEPT ![tg_ctrl] = Append(@, tgelem)]

\* Lines 125-135: TGcfg['controllers'][ctrl]['channels'][tg_elem] =
\* {'full_name': ...}, returned with _tg_element_list.
getTGConfiguration(ctrls) ==
    LET l == tg_element_list(ctrls)
        d == ctrl_tgelem_dict(l)
    IN [TGcfg |-> [controllers |->
                     [ctrl \in DOMAIN d |->
                        [channels |-> [tg_elem \in Range(d[ctrl]) |->
                                         [full_name |-> tg_elem]]]]],
        tg_elements |-> l]

NoTG == [TGcfg |-> [controllers |-> <<>>], tg_elements |-> <<>>]

PureIdle ==
    /\ pure_op = None /\ pure_pc = "done"
    /\ synchronization = <<>> /\ mg_cfg_in = <<>>
    /\ integ_out = NoResult /\ split_out = NoSplit
    /\ tg_in = <<>> /\ tg_out = NoTG

InitPure ==
    /\ pure_pc = "input"
    /\ integ_out = NoResult /\ split_out = NoSplit /\ tg_out = NoTG
    /\ \/ pure_op = "extract_integ_time" /\ synchronization \in Synchronizations
          /\ mg_cfg_in = <<>> /\ tg_in = <<>>
       \/ pure_op = "split_MGConfigurations" /\ mg_cfg_in \in MGConfigs
          /\ synchronization = <<>> /\ tg_in = <<>>
       \/ pure_op = "getTGConfiguration" /\ tg_in \in TGInputs
          /\ synchronization = <<>> /\ mg_cfg_in = <<>>

ExtractIntegTime ==
    /\ pure_pc = "input" /\ pure_op = "extract_integ_time"
    /\ integ_out' = extract_integ_time(synchronization)
    /\ pure_pc' = "done"
    /\ UNCHANGED <<gateVars, startVars, convVars, loopVars, zeroVars, iorVars, pure_op,
                   synchronization, mg_cfg_in, split_out, tg_in, tg_out>>

\* The members values()[0] may be: any of the subset (None for an empty one).
Picks(ctrls_in, k) ==
    LET S == {c \in DOMAIN ctrls_in : route(ctrls_in, c) = k}
    IN IF S = {} THEN {None} ELSE S

SplitMGConfigurations ==
    /\ pure_pc = "input" /\ pure_op = "split_MGConfigurations"
    /\ \E ps \in Picks(mg_cfg_in, "sw"), ph \in Picks(mg_cfg_in, "hw") :
          split_out' = split_MGConfigurations(mg_cfg_in, ps, ph)
    /\ pure_pc' = "done"
    /\ UNCHANGED <<gateVars, startVars, convVars, loopVars, zeroVars, iorVars, pure_op,
                   synchronization, mg_cfg_in, integ_out, tg_in, tg_out>>

GetTGConfiguration ==
    /\ pure_pc = "input" /\ pure_op = "getTGConfiguration"
    /\ tg_out' = getTGConfiguration(tg_in)
    /\ pure_pc' = "done"
    /\ UNCHANGED <<gateVars, startVars, convVars, loopVars, zeroVars, iorVars, pure_op,
                   synchronization, mg_cfg_in, integ_out, split_out, tg_in>>

NextPure == ExtractIntegTime \/ SplitMGConfigurations \/ GetTGConfiguration

(***************************************************************************)
(*   start_action of PoolAcquisitionBase / PoolCTAcquisition /             *)
(*   PoolContHWAcquisition: the load/start sequence                        *)
(***************************************************************************)

Variants == {"Base", "CT", "ContHW"}

\* The controllers tried: c1 and c2 are timerable counter/timer controllers,
\* c3 is not timerable.
SCtrls == {"c1", "c2", "c3"}

ChannelsOf(c) ==
    CASE c = "c1" -> {"a1", "a2"}
      [] c = "c2" -> {"b1", "b2"}
      [] OTHER    -> {"z1"}

\* element.controller
controller_of(e) == CHOOSE c \in SCtrls : e \in ChannelsOf(c)

is_timerable(c) == c \in {"c1", "c2"}

\* Whether the controller's PreLoadOne/LoadOne take the repetitions argument
\* (otherwise the three-argument call raises TypeError).
accepts_repetitions(c) == c = "c1"

\* A keyword argument that is None or missing is <<>>, a given value v is <<v>>.
IsNone(x) == x = <<>>

CtrlData(c) ==
    [channels : [ChannelsOf(c) -> [enabled : IF c = "c3" THEN {TRUE} ELSE BOOLEAN]],
     timer    : IF c = "c1" THEN {"a1", "a2"} ELSE IF c = "c2" THEN {"b1"} ELSE {"z1"},
     monitor  : IF c = "c1" THEN {"a1"} ELSE IF c = "c2" THEN {"b2"} ELSE {"z1"}]

\* The configurations tried: the timer and monitor of the configuration are
\* those of one of its controllers.
StartConfigs ==
    UNION {
      UNION {
        {[timer |-> f[m].timer, monitor |-> f[m].monitor, controllers |-> f] : m \in S}
        : f \in {g \in [S -> UNION {CtrlData(c) : c \in S}] :
                     \A c \in S : g[c] \in CtrlData(c)}}
      : S \in (SUBSET SCtrls) \ {{}}}

StartKwargs ==
    [integ_time : {<<>>, <<1>>}, monitor_count : {<<>>, <<1>>},
     repetitions : {<<>>, <<2>>}, config : StartConfigs]

\* Lines 485-490.
MasterKey   == IF ~IsNone(kw.monitor_count) THEN "monitor" ELSE "timer"
MasterValue == IF ~IsNone(kw.monitor_count) THEN 0 - kw.monitor_count[1]
               ELSE kw.integ_time[1]

\* pool_ctrl_data[master_key]
MasterOf(data) == IF MasterKey = "monitor" THEN data.monitor ELSE data.timer

Cfg == kw.config

\* Lines 492-493.
MasterCtrl == controller_of(MasterOf(Cfg))

Perms(S) == {p \in [1..Cardinality(S) -> S] : \A x \in S : \E i \in DOMAIN p : p[i] = x}

\* list.remove(x): without the first occurrence of x.
Remove(l, x) ==
    LET i == CHOOSE k \in DOMAIN l : l[k] = x /\ \A h \in 1..(k - 1) : l[h] # x
    IN SubSeq(l, 1, i - 1) \o SubSeq(l, i + 1, Len(l))

\* l.remove(x); l.append(x)
MasterLast(l, x) == Append(Remove(l, x), x)

\* A variant that leaves the controllers in the order items() gave them.
OrderControllers_unordered(items, master_ctrl) == items

\* Lines 507-508: the controller of the master channel is moved to the end.
OrderControllers(items, master_ctrl) == MasterLast(items, master_ctrl)

\* The element list of one controller: Base and CT move the controller's
\* timer/monitor to the end (lines 557-561, 810-814); ContHW iterates the
\* channels dictionary as it is (lines 1008-1009).
OrderElements(v, keys, timer_monitor) ==
    IF v = "ContHW" THEN keys ELSE MasterLast(keys, timer_monitor)

\* A controller call: res is what the controller returned (TRUE where the
\* result is not looked at), exc what it raised, ctx whether the hardware
\* access context of the action was held when it was issued.
Call(op, ctrl, axis, value, nargs, res) ==
    [op |-> op, ctrl |-> ctrl, axis |-> axis, value |-> value, nargs |-> nargs,
     res |-> res, exc |-> None, ctx |-> ctx]

CallAll(op, ctrl) == Call(op, ctrl, None, 0, 0, TRUE)

\* A variant that does not look at the result of PreLoadOne.
PreLoadOneFailed_unchecked(res) == FALSE

\* Line 537: "if not res".
PreLoadOneFailed(res) == ~res

\* A variant that does not look at the result of PreStartOne.
PreStartOneFailed_unchecked(ret) == FALSE

\* Line 567: "if not ret".
PreStartOneFailed(ret) == ~ret

\* The arguments PreLoadOne/LoadOne are called with: Base passes repetitions
\* and falls back to two arguments on TypeError; CT and ContHW pass two.
LoadArgs(v, ctrl) == IF v = "Base" /\ accepts_repetitions(ctrl) THEN 3 ELSE 2

CurCtrl == pool_ctrls[ci]
CurData == Cfg.controllers[CurCtrl]

Raise(exc) == st_pc' = "raised" /\ error' = exc

\* ActionContext.__enter__: the context is held.
ActionContext_enter == TRUE

\* A variant of __exit__ that releases the context only when the block ended
\* without an exception.
ActionContext_exit_normal_only(raised) == raised

\* ActionContext.__exit__: whether the context is still held after the with
\* block was left, with an exception (raised) or without.
ActionContext_exit(raised) == FALSE

\* An exception leaves the with block of line 522.
RaiseInContext(exc) == Raise(exc) /\ ctx' = ActionContext_exit(TRUE)

StartIdle ==
    /\ variant = None /\ kw = <<>> /\ st_pc = "idle" /\ pool_ctrls = <<>>
    /\ ci = 0 /\ elements = <<>> /\ calls = <<>> /\ chan_state = <<>>
    /\ error = None /\ ctx = FALSE /\ chan_prop = <<>>

InitStart ==
    /\ variant \in Variants /\ kw \in StartKwargs
    /\ st_pc = "start" /\ pool_ctrls = <<>> /\ ci = 0 /\ elements = <<>>
    /\ calls = <<>> /\ chan_state = <<>> /\ error = None
    /\ ctx = FALSE /\ chan_prop = <<>>

\* A variant without the second check (both given).
ValidateMaster_allows_both(integ_time, mon_count) ==
    IF IsNone(integ_time) /\ IsNone(mon_count)
    THEN "must give integration time or monitor counts"
    ELSE None

\* Lines 474-479: exactly one of integ_time and monitor_count.
ValidateMaster(integ_time, mon_count) ==
    IF IsNone(integ_time) /\ IsNone(mon_count)
    THEN "must give integration time or monitor counts"
    ELSE IF ~IsNone(integ_time) /\ ~IsNone(mon_count)
    THEN "must give either integration time or monitor counts (not both)"
    ELSE None

StartValidate ==
    /\ st_pc = "start"
    /\ LET exc == ValidateMaster(kw.integ_time, kw.monitor_count)
       IN IF exc # None THEN Raise(exc)
          ELSE st_pc' = "resolve" /\ UNCHANGED error
    /\ UNCHANGED <<pureVars, iorVars, gateVars, convVars, loopVars, zeroVars, variant, kw,
                   pool_ctrls, ci, elements, calls, chan_state, ctx, chan_prop>>

\* Lines 492-522: the controller list with the master controller last, the
\* channels of the cycle, and the entry into the with block. items() gives
\* the controllers in any order.
StartResolve ==
    /\ st_pc = "resolve"
    /\ LET timerable == {c \in DOMAIN Cfg.controllers : is_timerable(c)}
       IN IF MasterCtrl \notin timerable
          THEN /\ Raise("ValueError")
               /\ UNCHANGED <<pool_ctrls, ci, chan_state, ctx, chan_prop>>
          ELSE /\ \E items \in Perms(timerable) :
                    pool_ctrls' = OrderControllers(items, MasterCtrl)
               /\ chan_state' = [e \in UNION {ChannelsOf(c) : c \in timerable} |-> "On"]
               /\ chan_prop' = [e \in UNION {ChannelsOf(c) : c \in timerable} |-> 0]
               /\ ci' = 1
               /\ ctx' = ActionContext_enter
               /\ st_pc' = IF variant = "ContHW" THEN "SetCtrlPar" ELSE "PreLoadAll"
               /\ UNCHANGED error
    /\ UNCHANGED <<pureVars, iorVars, gateVars, convVars, loopVars, zeroVars, variant, kw,
                   elements, calls>>

\* A variant whose loops over the controllers end after the first controller.
NextCtrl_first_only(again, after) == ci' = 1 /\ st_pc' = after

\* The loop over pool_ctrls goes on with the next controller, or ends.
NextCtrl(again, after) ==
    IF ci < Len(pool_ctrls) THEN ci' = ci + 1 /\ st_pc' = again
    ELSE ci' = 1 /\ st_pc' = after

\* Lines 981-985 (ContHW): repetitions = self.conf['repetitions'], then
\* SetCtrlPar on every controller.
SetCtrlPar ==
    /\ st_pc = "SetCtrlPar"
    /\ IF IsNone(kw.repetitions)
       THEN RaiseInContext("KeyError") /\ UNCHANGED <<ci, calls>>
       ELSE /\ calls' = Append(calls, Call("SetCtrlPar", CurCtrl, None, kw.repetitions[1], 2, TRUE))
            /\ NextCtrl("SetCtrlPar", "PreLoadAll")
            /\ UNCHANGED <<error, ctx>>
    /\ UNCHANGED <<pureVars, iorVars, gateVars, convVars, loopVars, zeroVars, variant, kw,
                   pool_ctrls, elements, chan_state, chan_prop>>

PreLoadAll ==
    /\ st_pc = "PreLoadAll"
    /\ calls' = Append(calls, CallAll("PreLoadAll", CurCtrl))
    /\ st_pc' = "PreLoadOne"
    /\ UNCHANGED <<pureVars, iorVars, gateVars, convVars, loopVars, zeroVars, variant, kw,
                   pool_ctrls, ci, elements, chan_state, error, ctx, chan_prop>>

\* Lines 529-540: PreLoadOne on the controller's own timer/monitor; a falsy
\* result raises.
PreLoadOne ==
    /\ st_pc = "PreLoadOne"
    /\ \E res \in BOOLEAN :
         /\ calls' = Append(calls, Call("PreLoadOne", CurCtrl, MasterOf(CurData),
                                        MasterValue, LoadArgs(variant, CurCtrl), res))
         /\ IF PreLoadOneFailed(res) THEN RaiseInContext("PreLoadOne returned False")
            ELSE st_pc' = "LoadOne" /\ UNCHANGED <<error, ctx>>
    /\ UNCHANGED <<pureVars, iorVars, gateVars, convVars, loopVars, zeroVars, variant, kw,
                   pool_ctrls, ci, elements, chan_state, chan_prop>>

LoadOne ==
    /\ st_pc = "LoadOne"
    /\ calls' = Append(calls, Call("LoadOne", CurCtrl, MasterOf(CurData),
                                   MasterValue, LoadArgs(variant, CurCtrl), TRUE))
    /\ st_pc' = "LoadAll"
    /\ UNCHANGED <<pureVars, iorVars, gateVars, convVars, loopVars, zeroVars, variant, kw,
                   pool_ctrls, ci, elements, chan_state, error, ctx, chan_prop>>

LoadAll ==
    /\ st_pc = "LoadAll"
    /\ calls' = Append(calls, CallAll("LoadAll", CurCtrl))
    /\ NextCtrl("PreLoadAll", "PreStartAll")
    /\ UNCHANGED <<pureVars, iorVars, gateVars, convVars, loopVars, zeroVars, variant, kw,
                   pool_ctrls, elements, chan_state, error, ctx, chan_prop>>

PreStartAll ==
    /\ st_pc = "PreStartAll"
    /\ calls' = Append(calls, CallAll("PreStartAll", CurCtrl))
    /\ NextCtrl("PreStartAll", "Elements")
    /\ UNCHANGED <<pureVars, iorVars, gateVars, convVars, loopVars, zeroVars, variant, kw,
                   pool_ctrls, elements, chan_state, error, ctx, chan_prop>>

\* Lines 555-561: the elements of the controller, keys() in any order.
Elements ==
    /\ st_pc = "Elements"
    /\ \E keys \in Perms(DOMAIN CurData.channels) :
         elements' = OrderElements(variant, keys, MasterOf(CurData))
    /\ st_pc' = "StartLoop"
    /\ UNCHANGED <<pureVars, iorVars, gateVars, convVars, loopVars, zeroVars, variant, kw,
                   pool_ctrls, ci, calls, chan_state, error, ctx, chan_prop>>

\* A variant that starts the controller's timer/monitor whatever its flag.
channel_enabled_or_master(data, element) ==
    data.channels[element].enabled \/ element = MasterOf(data)

\* Lines 565, 818, 1012: "if channel.enabled".
channel_enabled(data, element) == data.channels[element].enabled

\* Line 565: a channel that is not enabled is passed over.
SkipDisabled ==
    /\ st_pc = "StartLoop" /\ elements # <<>>
    /\ ~channel_enabled(CurData, Head(elements))
    /\ elements' = Tail(elements)
    /\ UNCHANGED <<pureVars, iorVars, gateVars, convVars, loopVars, zeroVars, variant, kw,
                   st_pc, pool_ctrls, ci, calls, chan_state, error, ctx, chan_prop>>

\* Lines 566-570: PreStartOne; a falsy result raises.
PreStartOne ==
    /\ st_pc = "StartLoop" /\ elements # <<>>
    /\ channel_enabled(CurData, Head(elements))
    /\ \E ret \in BOOLEAN :
         /\ calls' = Append(calls, Call("PreStartOne", CurCtrl, Head(elements),
                                        MasterValue, 2, ret))
         /\ IF PreStartOneFailed(ret) THEN RaiseInContext("PreStartOne returns False")
            ELSE st_pc' = "StartOne" /\ UNCHANGED <<error, ctx>>
    /\ UNCHANGED <<pureVars, iorVars, gateVars, convVars, loopVars, zeroVars, variant, kw,
                   pool_ctrls, ci, elements, chan_state, chan_prop>>

\* Line 571.
StartOne ==
    /\ st_pc = "StartOne"
    /\ calls' = Append(calls, Call("StartOne", CurCtrl, Head(elements), MasterValue, 2, TRUE))
    /\ elements' = Tail(elements)
    /\ st_pc' = "StartLoop"
    /\ UNCHANGED <<pureVars, iorVars, gateVars, convVars, loopVars, zeroVars, variant, kw,
                   pool_ctrls, ci, chan_state, error, ctx, chan_prop>>

\* The elements of the controller are exhausted.
ElementsDone ==
    /\ st_pc = "StartLoop" /\ elements = <<>>
    /\ NextCtrl("Elements", "SetState")
    /\ UNCHANGED <<pureVars, iorVars, gateVars, convVars, loopVars, zeroVars, variant, kw,
                   pool_ctrls, elements, calls, chan_state, error, ctx, chan_prop>>

\* A variant that sets the state of the enabled channels only.
StateChannels_enabled_only(channels) ==
    {e \in channels : Cfg.controllers[controller_of(e)].channels[e].enabled}

\* Line 574: "for channel in channels", every channel of self._channels.
StateChannels(channels) == channels

\* Lines 573-575: channel.set_state(State.Moving, propagate=2) on one channel
\* after the other, the dictionary giving them in any order.
SetState ==
    /\ st_pc = "SetState"
    /\ LET todo == {e \in StateChannels(DOMAIN chan_state) : chan_state[e] # "Moving"}
       IN IF todo = {}
          THEN st_pc' = "StartAll" /\ UNCHANGED <<chan_state, chan_prop>>
          ELSE /\ \E e \in todo :
                    /\ chan_state' = [chan_state EXCEPT ![e] = "Moving"]
                    /\ chan_prop' = [chan_prop EXCEPT ![e] = 2]
               /\ UNCHANGED st_pc
    /\ UNCHANGED <<pureVars, iorVars, gateVars, convVars, loopVars, zeroVars, variant, kw,
                   pool_ctrls, ci, elements, calls, error, ctx>>

\* Lines 577-579; after the last StartAll the with block is left.
StartAll ==
    /\ st_pc = "StartAll"
    /\ calls' = Append(calls, CallAll("StartAll", CurCtrl))
    /\ NextCtrl("StartAll", "done")
    /\ ctx' = IF st_pc' = "done" THEN ActionContext_exit(FALSE) ELSE ctx
    /\ UNCHANGED <<pureVars, iorVars, gateVars, convVars, loopVars, zeroVars, variant, kw,
                   pool_ctrls, elements, chan_state, error, chan_prop>>

\* The controller call start_action is about to issue.
PendingCall ==
    CASE st_pc = "SetCtrlPar" ->
           Call("SetCtrlPar", CurCtrl, None, kw.repetitions[1], 2, TRUE)
      [] st_pc \in {"PreLoadAll", "LoadAll", "PreStartAll", "StartAll"} ->
           CallAll(st_pc, CurCtrl)
      [] st_pc \in {"PreLoadOne", "LoadOne"} ->
           Call(st_pc, CurCtrl, MasterOf(CurData), MasterValue,
                LoadArgs(variant, CurCtrl), TRUE)
      [] st_pc = "StartLoop" ->
           Call("PreStartOne", CurCtrl, Head(elements), MasterValue, 2, TRUE)
      [] OTHER ->
           Call("StartOne", CurCtrl, Head(elements), MasterValue, 2, TRUE)

\* Whether start_action is about to issue a controller call.
CallPending ==
    \/ st_pc \in {"PreLoadAll", "PreLoadOne", "LoadOne", "LoadAll", "PreStartAll",
                  "StartOne", "StartAll"}
    \/ st_pc = "SetCtrlPar" /\ ~IsNone(kw.repetitions)
    \/ /\ st_pc = "StartLoop" /\ elements # <<>>
       /\ CurData.channels[Head(elements)].enabled

\* A controller call raises (an exception other than the TypeError of the
\* three-argument PreLoadOne/LoadOne, which lines 531-546 catch): nothing in
\* start_action catches it, and it leaves the with block.
ControllerRaises ==
    /\ CallPending
    /\ calls' = Append(calls, [PendingCall EXCEPT !.exc = "ControllerError"])
    /\ RaiseInContext("ControllerError")
    /\ UNCHANGED <<pureVars, iorVars, gateVars, convVars, loopVars, zeroVars, variant, kw,
                   pool_ctrls, ci, elements, chan_state, chan_prop>>

NextStart ==
    \/ StartValidate \/ StartResolve \/ SetCtrlPar
    \/ PreLoadAll \/ PreLoadOne \/ LoadOne \/ LoadAll
    \/ PreStartAll
    \/ Elements \/ SkipDisabled \/ PreStartOne \/ StartOne \/ ElementsDone
    \/ SetState \/ StartAll \/ ControllerRaises

(***************************************************************************)
(*        PoolAcquisition: event dispatch, busy flags, worker pool         *)
(***************************************************************************)

\* Bounds: trigger events delivered, calls of run.
MaxEvents == 3
MaxRuns   == 1

Sources   == {1, 2}
OneSource == {1}

\* A cached keyword dictionary: the controllers of its 'config', its 'idx'
\* and its 'monitor_count' (<<>> when the key is missing).
NoConfig == [isset |-> FALSE, ctrls |-> {}, idx |-> 0, mon |-> <<>>]

\* A running event_received call. skipped: the sub-acquisitions it logged
\* 'Skipping trigger' for; dispatched: those it handed a callable to the
\* worker pool for; stop: it called stop_action of the ZeroD acquisition;
\* sw_ready and zd_ready: whether, when the event was received, the
\* sub-acquisition had a cached configuration and a clear busy flag; raced:
\* the sub-acquisitions whose busy flag the call set when it was set already,
\* by another call since this one found it clear.
NoEvent  == [pc |-> "idle", type |-> None, id |-> 0, skipped |-> {},
             dispatched |-> {}, stop |-> FALSE,
             sw_ready |-> FALSE, zd_ready |-> FALSE, raced |-> {}]

\* What run did last: the split of the configuration it was given, what
\* the start of the hardware sub-acquisition raised, and the steps it took.
NoRun == [called |-> FALSE, hw_part |-> {}, sw_part |-> {}, zd_part |-> {},
          hw_exc |-> None, hw |-> FALSE, listener |-> FALSE, sw |-> FALSE, zd |-> FALSE,
          tg |-> FALSE]

\* The configurations and synchronizations run is called with.
RunConfigs == {cfg \in MGConfigs :
                 /\ DOMAIN cfg \subseteq {"p1", "p2"}
                 /\ \A c \in DOMAIN cfg :
                      /\ cfg[c].timer = "t1"
                      /\ cfg[c].trigger_element = (IF c = "p2" THEN None ELSE "hw_tg")
                         \/ (c = "p1" /\ cfg[c].trigger_element = "sw_tg")}
RunSynchs == {<<[time |-> 1, repeats |-> 1]>>,
              <<[time |-> 1, repeats |-> 1], [time |-> 2, repeats |-> 1]>>}

\* kwargs.get('monitor_count') of the keywords run is called with.
RunMonitorCounts == {<<>>, <<1>>}

\* The exceptions a falsy controller result makes start_action raise
\* (lines 540 and 570).
ProtocolErrors == {"PreLoadOne returned False", "PreStartOne returns False"}

\* The values a channel read gives.
Values == {10}

\* "if self._sw_acq_config:" : None and the empty dict are falsy.
Truthy(config) == config.isset

\* A variant that never sees the software acquisition busy.
is_cont_ct_acq_busy_never == FALSE

\* Lines 201-209.
is_cont_ct_acq_busy == sw_acq_busy

is_zerod_acq_busy == zd_acq_busy

\* set_sw_acq_busy / set_0d_acq_busy: "if busy is True: set() else: clear()".
set_acq_busy(busy) == IF busy = TRUE THEN TRUE ELSE FALSE

\* A variant that reports a failed cycle as still busy.
run_cycle_result_busy_on_failure(outcome) == outcome = "raised"

\* _run_ct_continuous / _run_zerod_acquisition: try/except/finally: return
\* False, whether the cycle ran to its end or raised.
run_cycle_result(outcome) == FALSE

\* A variant in which the exception leaves the callable.
Caught_reraised(exc) == exc

\* The bare "except:" of _run_ct_continuous / _run_zerod_acquisition (and
\* the return in "finally:"): what leaves the callable of an exception.
Caught(exc) == None

\* A variant in which run goes on after a failed hardware start.
Uncaught_contained(exc) == None

\* Line 281: self._hw_acq.run(...) is called outside any try, so what it
\* raises leaves PoolAcquisition.run.
Uncaught(exc) == exc

\* PoolAction.run: start_action runs in the caller's thread, and what it
\* raises is raised by run.
PoolAction_run(start_exc) == start_exc

\* What the start of the sub-acquisition raises (None: nothing), given the
\* integration time run passes, the monitor count of the keywords, and the
\* controller-protocol failure met (None: no failure).
start_action_raises(integ_time, mon_count, failure) ==
    IF ValidateMaster(integ_time, mon_count) # None
    THEN ValidateMaster(integ_time, mon_count)
    ELSE failure

\* No call of run is in progress.
RunIdle == [at |-> "idle", integ_time |-> <<>>, mon |-> <<>>]

InitGate ==
    /\ sw_acq_config = NoConfig /\ zd_config = NoConfig
    /\ sw_acq_busy = FALSE /\ zd_acq_busy = FALSE
    /\ ev = [s \in Sources |-> NoEvent]
    /\ nev = 0 /\ nruns = 0
    /\ jobs = <<>>
    /\ sw_index = 0
    /\ zd_stopped = FALSE /\ zd_aborted = FALSE /\ zd_conf_idx = 0
    /\ hw_started = FALSE /\ tg_started = FALSE /\ listener = FALSE
    /\ run_error = None
    /\ run_did = NoRun
    /\ run_pc = RunIdle
    /\ handled = <<>>

\* PoolAcquisition.run: the integration time, the split, the hardware
\* sub-acquisition, the listener and the cached configurations, the trigger
\* generator. An exception of extract_integ_time, or of the start of the
\* hardware sub-acquisition, leaves run at once.
Run ==
    /\ nruns < MaxRuns
    /\ nruns' = nruns + 1
    /\ \E config \in RunConfigs, synch \in RunSynchs, mon_count \in RunMonitorCounts,
          failure \in ProtocolErrors \cup {None} :
       \E ps \in Picks(config, "sw"), ph \in Picks(config, "hw") :
         LET integ_time == extract_integ_time(synch)
             sp == split_MGConfigurations(config, ps, ph)
             did == [NoRun EXCEPT !.called = TRUE, !.hw_part = DOMAIN sp.hw,
                                  !.sw_part = DOMAIN sp.sw, !.zd_part = DOMAIN sp.zd]
             hw_exc == IF DOMAIN sp.hw = {} THEN None
                       ELSE PoolAction_run(
                                start_action_raises(<<integ_time.scalar>>, mon_count, failure))
         IN IF integ_time.kind \notin {"float", "list"}
            THEN /\ run_error' = integ_time.kind
                 /\ run_did' = did
                 /\ UNCHANGED <<sw_acq_config, zd_config, hw_started,
                                tg_started, listener>>
            ELSE IF Uncaught(hw_exc) # None
            THEN /\ run_error' = Uncaught(hw_exc)
                 /\ run_did' = [did EXCEPT !.hw_exc = hw_exc]
                 /\ UNCHANGED <<sw_acq_config, zd_config, hw_started,
                                tg_started, listener>>
            ELSE /\ run_error' = None
                 /\ run_did' = [did EXCEPT
                        !.hw_exc = hw_exc,
                        !.hw = (DOMAIN sp.hw # {} /\ hw_exc = None),
                        !.listener = (DOMAIN sp.sw # {} \/ DOMAIN sp.zd # {}),
                        !.sw = (DOMAIN sp.sw # {}),
                        !.zd = (DOMAIN sp.zd # {}),
                        !.tg = TRUE]
                 /\ hw_started' = (hw_started \/ (DOMAIN sp.hw # {} /\ hw_exc = None))
                 /\ listener' = (listener \/ DOMAIN sp.sw # {} \/ DOMAIN sp.zd # {})
                 /\ sw_acq_config' =
                      IF DOMAIN sp.sw # {}
                      THEN [isset |-> TRUE, ctrls |-> DOMAIN sp.sw, idx |-> 0,
                            mon |-> mon_count]
                      ELSE sw_acq_config
                 /\ zd_config' =
                      IF DOMAIN sp.zd # {}
                      THEN [isset |-> TRUE, ctrls |-> DOMAIN sp.zd, idx |-> 0,
                            mon |-> mon_count]
                      ELSE zd_config
                 /\ tg_started' = TRUE
    /\ UNCHANGED <<pureVars, iorVars, startVars, convVars, loopVars, zeroVars, sw_acq_busy, zd_acq_busy, ev, nev, jobs,
                   sw_index, zd_stopped, zd_aborted, zd_conf_idx, handled, run_pc>>

\* ---- run, statement by statement, with trigger events in between ----

\* Bound: the calls of run made one after the other on one coordinator.
MaxReruns == 2

\* A variant that starts the trigger generator first.
run_order_tg_first == <<"tg", "hw", "listener", "sw_config", "zd_config">>

\* The statements of run after the split, in program order: lines 277-281,
\* 282-283, 284-288, 289-292, 293-295.
run_order == <<"hw", "listener", "sw_config", "zd_config", "tg">>

\* The statement after the one at position 'at'; "idle" after the last.
run_after(at) ==
    LET i == CHOOSE k \in DOMAIN run_order : run_order[k] = at
    IN IF i = Len(run_order) THEN "idle" ELSE run_order[i + 1]

RunGoto(at) == run_pc' = IF at = "idle" THEN RunIdle ELSE [run_pc EXCEPT !.at = at]

\* Lines 268-275: the integration time and the split; an exception of
\* extract_integ_time leaves run.
RunBegin ==
    /\ run_pc.at = "idle" /\ nruns < MaxReruns
    /\ nruns' = nruns + 1
    /\ \E config \in RunConfigs, synch \in RunSynchs, mon_count \in RunMonitorCounts :
       \E ps \in Picks(config, "sw"), ph \in Picks(config, "hw") :
         LET integ_time == extract_integ_time(synch)
             sp == split_MGConfigurations(config, ps, ph)
         IN /\ run_did' = [NoRun EXCEPT !.called = TRUE, !.hw_part = DOMAIN sp.hw,
                                        !.sw_part = DOMAIN sp.sw, !.zd_part = DOMAIN sp.zd]
            /\ IF integ_time.kind \notin {"float", "list"}
               THEN run_error' = integ_time.kind /\ run_pc' = RunIdle
               ELSE /\ run_error' = None
                    /\ run_pc' = [at |-> run_order[1], integ_time |-> <<integ_time.scalar>>,
                                  mon |-> mon_count]
    /\ UNCHANGED <<pureVars, iorVars, startVars, convVars, loopVars, zeroVars, sw_acq_config,
                   zd_config, sw_acq_busy, zd_acq_busy, ev, nev, jobs, sw_index,
                   zd_stopped, zd_aborted, zd_conf_idx, handled, hw_started, tg_started,
                   listener>>

\* Lines 277-281: the hardware sub-acquisition is started when its subset is
\* not empty; what its start raises leaves run.
RunHardware ==
    /\ run_pc.at = "hw"
    /\ IF run_did.hw_part = {}
       THEN RunGoto(run_after("hw")) /\ UNCHANGED <<hw_started, run_error, run_did>>
       ELSE \E failure \in ProtocolErrors \cup {None} :
              LET hw_exc == PoolAction_run(
                                start_action_raises(run_pc.integ_time, run_pc.mon, failure))
              IN IF Uncaught(hw_exc) # None
                 THEN /\ run_error' = Uncaught(hw_exc)
                      /\ run_did' = [run_did EXCEPT !.hw_exc = hw_exc]
                      /\ run_pc' = RunIdle
                      /\ UNCHANGED hw_started
                 ELSE /\ hw_started' = TRUE
                      /\ run_did' = [run_did EXCEPT !.hw = TRUE]
                      /\ RunGoto(run_after("hw"))
                      /\ UNCHANGED run_error
    /\ UNCHANGED <<pureVars, iorVars, startVars, convVars, loopVars, zeroVars, sw_acq_config,
                   zd_config, sw_acq_busy, zd_acq_busy, ev, nev, nruns, jobs, sw_index,
                   zd_stopped, zd_aborted, zd_conf_idx, handled, tg_started, listener>>

\* Lines 282-283: self._tg_gen.add_listener(self).
RunAddListener ==
    /\ run_pc.at = "listener"
    /\ LET listens == run_did.sw_part # {} \/ run_did.zd_part # {}
       IN /\ listener' = (listener \/ listens)
          /\ run_did' = [run_did EXCEPT !.listener = listens]
    /\ RunGoto(run_after("listener"))
    /\ UNCHANGED <<pureVars, iorVars, startVars, convVars, loopVars, zeroVars, sw_acq_config,
                   zd_config, sw_acq_busy, zd_acq_busy, ev, nev, nruns, jobs, sw_index,
                   zd_stopped, zd_aborted, zd_conf_idx, handled, hw_started, tg_started,
                   run_error>>

\* Lines 284-288: the software keywords are cached when the software subset
\* is not empty; otherwise self._sw_acq_config is left as it is.
RunSetSwConfig ==
    /\ run_pc.at = "sw_config"
    /\ IF run_did.sw_part # {}
       THEN /\ sw_acq_config' = [isset |-> TRUE, ctrls |-> run_did.sw_part, idx |-> 0,
                                 mon |-> run_pc.mon]
            /\ run_did' = [run_did EXCEPT !.sw = TRUE]
       ELSE UNCHANGED <<sw_acq_config, run_did>>
    /\ RunGoto(run_after("sw_config"))
    /\ UNCHANGED <<pureVars, iorVars, startVars, convVars, loopVars, zeroVars,
                   zd_config, sw_acq_busy, zd_acq_busy, ev, nev, nruns, jobs, sw_index,
                   zd_stopped, zd_aborted, zd_conf_idx, handled, hw_started, tg_started,
                   listener, run_error>>

\* Lines 289-292: the same for the ZeroD keywords.
RunSet0DConfig ==
    /\ run_pc.at = "zd_config"
    /\ IF run_did.zd_part # {}
       THEN /\ zd_config' = [isset |-> TRUE, ctrls |-> run_did.zd_part, idx |-> 0,
                             mon |-> run_pc.mon]
            /\ run_did' = [run_did EXCEPT !.zd = TRUE]
       ELSE UNCHANGED <<zd_config, run_did>>
    /\ RunGoto(run_after("zd_config"))
    /\ UNCHANGED <<pureVars, iorVars, startVars, convVars, loopVars, zeroVars,
                   sw_acq_config, sw_acq_busy, zd_acq_busy, ev, nev, nruns, jobs, sw_index,
                   zd_stopped, zd_aborted, zd_conf_idx, handled, hw_started, tg_started,
                   listener, run_error>>

\* Lines 293-295: self._tg_gen.run(...).
RunTGGeneration ==
    /\ run_pc.at = "tg"
    /\ tg_started' = TRUE
    /\ run_did' = [run_did EXCEPT !.tg = TRUE]
    /\ RunGoto(run_after("tg"))
    /\ UNCHANGED <<pureVars, iorVars, startVars, convVars, loopVars, zeroVars, sw_acq_config,
                   zd_config, sw_acq_busy, zd_acq_busy, ev, nev, nruns, jobs, sw_index,
                   zd_stopped, zd_aborted, zd_conf_idx, handled, hw_started, listener,
                   run_error>>

RunSteps ==
    \/ RunBegin \/ RunHardware \/ RunAddListener \/ RunSetSwConfig
    \/ RunSet0DConfig \/ RunTGGeneration

\* The trigger generator calls event_received(source, type, id); it numbers
\* its events.
EventReceived(s) ==
    /\ ev[s].pc = "idle"
    /\ nev < MaxEvents
    /\ nev' = nev + 1
    /\ \E type \in {"Active", "Passive"} :
         ev' = [ev EXCEPT ![s] =
                  [pc |-> IF type = "Active" THEN "sw_check" ELSE "passive",
                   type |-> type, id |-> nev + 1, skipped |-> {},
                   dispatched |-> {}, stop |-> FALSE,
                   sw_ready |-> (Truthy(sw_acq_config) /\ ~is_cont_ct_acq_busy),
                   zd_ready |-> (Truthy(zd_config) /\ ~is_zerod_acq_busy),
                   raced |-> {}]]
    /\ UNCHANGED <<pureVars, iorVars, startVars, convVars, loopVars, zeroVars, runVars, handled, sw_acq_config, zd_config, sw_acq_busy, zd_acq_busy, nruns,
                   jobs, sw_index, zd_stopped, zd_aborted, zd_conf_idx>>

\* A variant that goes on to the dispatch after the "Skipping trigger"
\* message.
SkipTrigger_dispatches(e, kind) ==
    [e EXCEPT !.pc = IF kind = "sw" THEN "sw_set" ELSE "zd_set"]

\* Lines 223-226 and 240-243: "Skipping trigger", then return.
SkipTrigger(e, kind) == [e EXCEPT !.pc = "return"]

\* The 'Skipping trigger' message is logged for the sub-acquisition.
Skipping(e, kind) == [e EXCEPT !.skipped = @ \cup {kind}]

\* The record kept of a call of event_received that has returned.
Handled(e) == [type |-> e.type, id |-> e.id, skipped |-> e.skipped,
               dispatched |-> e.dispatched, stop |-> e.stop,
               sw_ready |-> e.sw_ready, zd_ready |-> e.zd_ready, raced |-> e.raced]

\* The position the call of source s goes to; on return the call is recorded.
Goto(s, e) ==
    IF e.pc = "return"
    THEN ev' = [ev EXCEPT ![s] = NoEvent] /\ handled' = Append(handled, Handled(e))
    ELSE ev' = [ev EXCEPT ![s] = e] /\ UNCHANGED handled

\* Lines 221-227: the software configuration and busy checks.
SwCheck(s) ==
    /\ ev[s].pc = "sw_check"
    /\ Goto(s, IF ~Truthy(sw_acq_config) THEN [ev[s] EXCEPT !.pc = "zd_check"]
               ELSE IF is_cont_ct_acq_busy
                    THEN SkipTrigger(Skipping(ev[s], "sw"), "sw")
               ELSE [ev[s] EXCEPT !.pc = "sw_set"])
    /\ UNCHANGED <<pureVars, iorVars, startVars, convVars, loopVars, zeroVars, runVars, sw_acq_config, zd_config, sw_acq_busy, zd_acq_busy, nev,
                   nruns, jobs, sw_index, zd_stopped, zd_aborted, zd_conf_idx>>

\* Line 228: set_sw_acq_busy(True).
SwSetBusy(s) ==
    /\ ev[s].pc = "sw_set"
    /\ sw_acq_busy' = set_acq_busy(TRUE)
    /\ ev' = [ev EXCEPT ![s] = [@ EXCEPT !.pc = "sw_add",
                  !.raced = IF is_cont_ct_acq_busy THEN @ \cup {"sw"} ELSE @]]
    /\ UNCHANGED <<pureVars, iorVars, startVars, convVars, loopVars, zeroVars, runVars, handled, sw_acq_config, zd_config, zd_acq_busy, nev, nruns, jobs,
                   sw_index, zd_stopped, zd_aborted, zd_conf_idx>>

\* A variant that gives every callable the software callback.
callback_of_software_only(kind) == "set_sw_acq_busy"

\* The callback given to add() with the callable (lines 235 and 252).
callback_of(kind) == IF kind = "sw" THEN "set_sw_acq_busy" ELSE "set_0d_acq_busy"

\* What a cycle has published at its end: the final value of its channels
\* (value and index) and whether the final state was published.
NoPub == [value |-> <<>>, idx |-> <<>>, state |-> FALSE]

NewJob(kind, config) ==
    [kind |-> kind, idx |-> config.idx, ctrls |-> config.ctrls,
     mon |-> config.mon, callback |-> callback_of(kind),
     phase |-> "queued", outcome |-> None, exc |-> None, escaped |-> None,
     ret |-> FALSE, pub |-> NoPub]

\* Lines 230-237: kwargs is the cached dictionary itself, so 'idx' is stored
\* in it; add() receives the keywords unpacked, a copy of their values.
SwAdd(s) ==
    /\ ev[s].pc = "sw_add"
    /\ sw_acq_config' = [sw_acq_config EXCEPT !.idx = ev[s].id]
    /\ jobs' = Append(jobs, NewJob("sw", sw_acq_config'))
    /\ ev' = [ev EXCEPT ![s] = [@ EXCEPT !.pc = "zd_check", !.dispatched = @ \cup {"sw"}]]
    /\ UNCHANGED <<pureVars, iorVars, startVars, convVars, loopVars, zeroVars, runVars, handled, zd_config, sw_acq_busy, zd_acq_busy, nev, nruns, sw_index,
                   zd_stopped, zd_aborted, zd_conf_idx>>

\* Lines 238-243: the ZeroD configuration and busy checks; without a ZeroD
\* configuration the call is over.
ZdCheck(s) ==
    /\ ev[s].pc = "zd_check"
    /\ Goto(s, IF ~Truthy(zd_config) THEN [ev[s] EXCEPT !.pc = "return"]
               ELSE IF is_zerod_acq_busy
                    THEN SkipTrigger(Skipping(ev[s], "zd"), "zd")
               ELSE [ev[s] EXCEPT !.pc = "zd_set"])
    /\ UNCHANGED <<pureVars, iorVars, startVars, convVars, loopVars, zeroVars, runVars, sw_acq_config, zd_config, sw_acq_busy, zd_acq_busy, nev,
                   nruns, jobs, sw_index, zd_stopped, zd_aborted, zd_conf_idx>>

\* Line 245: set_0d_acq_busy(True).
ZdSetBusy(s) ==
    /\ ev[s].pc = "zd_set"
    /\ zd_acq_busy' = set_acq_busy(TRUE)
    /\ ev' = [ev EXCEPT ![s] = [@ EXCEPT !.pc = "zd_add",
                  !.raced = IF is_zerod_acq_busy THEN @ \cup {"zd"} ELSE @]]
    /\ UNCHANGED <<pureVars, iorVars, startVars, convVars, loopVars, zeroVars, runVars, handled, sw_acq_config, zd_config, sw_acq_busy, nev, nruns, jobs,
                   sw_index, zd_stopped, zd_aborted, zd_conf_idx>>

\* Lines 247-254.
ZdAdd(s) ==
    /\ ev[s].pc = "zd_add"
    /\ zd_config' = [zd_config EXCEPT !.idx = ev[s].id]
    /\ jobs' = Append(jobs, NewJob("zd", zd_config'))
    /\ Goto(s, [ev[s] EXCEPT !.pc = "return", !.dispatched = @ \cup {"zd"}])
    /\ UNCHANGED <<pureVars, iorVars, startVars, convVars, loopVars, zeroVars, runVars, sw_acq_config, sw_acq_busy, zd_acq_busy, nev, nruns,
                   sw_index, zd_stopped, zd_aborted, zd_conf_idx>>

\* A variant that stops the ZeroD acquisition whatever its flag.
passive_stops_always(config, busy) == TRUE

\* Line 257: "if self._0d_config and self.is_zerod_acq_busy()".
passive_stops(config, busy) == Truthy(config) /\ busy

\* Lines 256-259: a Passive event stops a busy ZeroD acquisition
\* (Pool0DAcquisition.stop_action, lines 1269-1271).
PassiveEvent(s) ==
    /\ ev[s].pc = "passive"
    /\ LET stops == passive_stops(zd_config, is_zerod_acq_busy)
       IN /\ zd_stopped' = IF stops THEN TRUE ELSE zd_stopped
          /\ Goto(s, [ev[s] EXCEPT !.pc = "return", !.stop = stops])
    /\ UNCHANGED <<pureVars, iorVars, startVars, convVars, loopVars, zeroVars, runVars, sw_acq_config, zd_config, sw_acq_busy, zd_acq_busy, nev,
                   nruns, jobs, sw_index, zd_aborted, zd_conf_idx>>

\* ---- the worker pool runs the dispatched callables ----

Return(job, outcome) ==
    [job EXCEPT !.phase = "returned", !.outcome = outcome,
                !.ret = run_cycle_result(outcome)]

\* The callable ends with the exception exc raised inside its try.
Fail(job, exc) ==
    [Return(job, "raised") EXCEPT !.exc = exc, !.escaped = Caught(exc)]

\* A variant that leaves the index of the previous cycle.
start_index_kept(idx, index) == index

\* Line 659: self.index = kwargs.get("idx").
start_index(idx, index) == idx

\* _run_ct_continuous -> PoolAcquisitionSoftware.start_action: the load/start
\* sequence, then self.index = kwargs.get("idx"); an exception ends the cycle.
\* The cached keywords carry the integration time run stored in them.
SwStart(j) ==
    /\ j \in DOMAIN jobs /\ jobs[j].kind = "sw" /\ jobs[j].phase = "queued"
    /\ \E failure \in ProtocolErrors \cup {None} :
         LET exc == PoolAction_run(start_action_raises(<<1>>, jobs[j].mon, failure))
         IN IF exc = None
            THEN /\ sw_index' = start_index(jobs[j].idx, sw_index)
                 /\ jobs' = [jobs EXCEPT ![j].phase = "loop"]
            ELSE /\ jobs' = [jobs EXCEPT ![j] = Fail(@, exc)]
                 /\ UNCHANGED sw_index
    /\ UNCHANGED <<pureVars, iorVars, startVars, convVars, loopVars, zeroVars, runVars, handled, sw_acq_config, zd_config, sw_acq_busy, zd_acq_busy, ev, nev,
                   nruns, zd_stopped, zd_aborted, zd_conf_idx>>

\* Lines 694-696: the value and the index are put into lists and published.
SoftwareFinalValue(value, index) ==
    [value |-> <<value>>, idx |-> <<index>>, state |-> FALSE]

\* PoolAcquisitionSoftware.action_loop runs to its end (the final value, then
\* the final state, are published), or the read of the values raises.
SwLoop(j) ==
    /\ j \in DOMAIN jobs /\ jobs[j].kind = "sw" /\ jobs[j].phase = "loop"
    /\ \/ \E value \in Values :
            jobs' = [jobs EXCEPT ![j] =
                       [Return(@, "ok") EXCEPT
                          !.pub = [SoftwareFinalValue(value, sw_index)
                                     EXCEPT !.state = TRUE]]]
       \/ jobs' = [jobs EXCEPT ![j] = Fail(@, "ReadError")]
    /\ UNCHANGED <<pureVars, iorVars, startVars, convVars, loopVars, zeroVars, runVars, handled, sw_acq_config, zd_config, sw_acq_busy, zd_acq_busy, ev, nev,
                   nruns, sw_index, zd_stopped, zd_aborted, zd_conf_idx>>

\* _run_zerod_acquisition -> Pool0DAcquisition.start_action (lines 1176-1222).
ZdStart(j) ==
    /\ j \in DOMAIN jobs /\ jobs[j].kind = "zd" /\ jobs[j].phase = "queued"
    /\ zd_conf_idx' = jobs[j].idx
    /\ zd_aborted' = FALSE /\ zd_stopped' = FALSE
    /\ \/ jobs' = [jobs EXCEPT ![j].phase = "loop"]
       \/ jobs' = [jobs EXCEPT ![j] = Fail(@, "ReadError")]
    /\ UNCHANGED <<pureVars, iorVars, startVars, convVars, loopVars, zeroVars, runVars, handled, sw_acq_config, zd_config, sw_acq_busy, zd_acq_busy, ev, nev,
                   nruns, sw_index>>

\* One iteration of Pool0DAcquisition.action_loop (lines 1246-1252): sample,
\* then leave the loop when stopped or aborted; the read may raise.
ZdLoop(j) ==
    /\ j \in DOMAIN jobs /\ jobs[j].kind = "zd" /\ jobs[j].phase = "loop"
    /\ \/ jobs' = [jobs EXCEPT ![j].phase =
                      IF zd_stopped \/ zd_aborted THEN "final" ELSE "loop"]
       \/ jobs' = [jobs EXCEPT ![j] = Fail(@, "ReadError")]
    /\ UNCHANGED <<pureVars, iorVars, startVars, convVars, loopVars, zeroVars, runVars, handled, sw_acq_config, zd_config, sw_acq_busy, zd_acq_busy, ev, nev,
                   nruns, sw_index, zd_stopped, zd_aborted, zd_conf_idx>>

\* Lines 1254-1267: the buffers are propagated and the final state published.
ZdFinal(j) ==
    /\ j \in DOMAIN jobs /\ jobs[j].kind = "zd" /\ jobs[j].phase = "final"
    /\ \/ jobs' = [jobs EXCEPT ![j] =
                     [Return(@, "ok") EXCEPT !.pub = [NoPub EXCEPT !.state = TRUE]]]
       \/ jobs' = [jobs EXCEPT ![j] = Fail(@, "ReadError")]
    /\ UNCHANGED <<pureVars, iorVars, startVars, convVars, loopVars, zeroVars, runVars, handled, sw_acq_config, zd_config, sw_acq_busy, zd_acq_busy, ev, nev,
                   nruns, sw_index, zd_stopped, zd_aborted, zd_conf_idx>>

\* The worker hands the callable's result to the callback given to add().
ThreadPoolCallback(j) ==
    /\ j \in DOMAIN jobs /\ jobs[j].phase = "returned"
    /\ jobs' = [jobs EXCEPT ![j].phase = "done"]
    /\ IF jobs[j].callback = "set_sw_acq_busy"
       THEN sw_acq_busy' = set_acq_busy(jobs[j].ret) /\ UNCHANGED zd_acq_busy
       ELSE zd_acq_busy' = set_acq_busy(jobs[j].ret) /\ UNCHANGED sw_acq_busy
    /\ UNCHANGED <<pureVars, iorVars, startVars, convVars, loopVars, zeroVars, runVars, handled, sw_acq_config, zd_config, ev, nev, nruns, sw_index,
                   zd_stopped, zd_aborted, zd_conf_idx>>

MaxJobs == 2 * MaxEvents

EventSteps(s) ==
    \/ EventReceived(s) \/ SwCheck(s) \/ SwSetBusy(s) \/ SwAdd(s)
    \/ ZdCheck(s) \/ ZdSetBusy(s) \/ ZdAdd(s) \/ PassiveEvent(s)

WorkerSteps(j) ==
    \/ SwStart(j) \/ SwLoop(j) \/ ZdStart(j) \/ ZdLoop(j) \/ ZdFinal(j)
    \/ ThreadPoolCallback(j)

\* The failures that depend on the controllers: a falsy result, a read that
\* raises.
Faults == ProtocolErrors \cup {"ReadError"}

\* The steps the worker threads are bound to take: those of the callable
\* and the callback, a failure of a controller excepted.
WorkerProgress(j) ==
    /\ WorkerSteps(j)
    /\ jobs'[j].exc \in Faults => jobs[j].exc = jobs'[j].exc

NextGate ==
    \/ Run
    \/ \E s \in OneSource : EventSteps(s)
    \/ \E j \in 1..MaxJobs : WorkerSteps(j)

\* The calls of run one after the other, each followed statement by
\* statement; the trigger generator sends events once it was started, and a
\* listener receives them.
NextRuns ==
    \/ RunSteps
    \/ \E s \in OneSource : EventSteps(s) /\ (nev' # nev => tg_started /\ listener)

\* Bound: the trigger events two concurrent generators deliver.
MaxRacing == 2

\* Two event generators deliver their events concurrently.
NextSources ==
    \/ Run
    \/ \E s \in Sources : EventSteps(s) /\ nev' <= MaxRacing
    \/ \E j \in 1..MaxJobs : WorkerSteps(j)

(***************************************************************************)
(*   The convergence at the end of the action_loop of the polling          *)
(*   acquisitions: the final state and value of every element              *)
(***************************************************************************)

ConvVariants == {"Hardware", "Software", "CT", "ContHW", "ContSWCT"}

ConvElements == {"e1", "e2"}

\* What the final read left in 'values' for an element: no entry, an empty
\* payload, or data. Hardware and Software give every channel an entry
\* before the read (lines 592-594, 664-666).
ValueKinds(v) == IF v \in {"Hardware", "Software"} THEN {"empty", "data"}
                 ELSE {"absent", "empty", "data"}

ConvInputs ==
    UNION {[variant : {v}, values : [ConvElements -> ValueKinds(v)], index : {1, 2}]
           : v \in ConvVariants}

NoConv == [variant |-> None, values |-> <<>>, index |-> 0]

\* Whether the final value of the element is published: when it has an entry
\* in 'values' and, in Hardware and ContHW, when its payload is not empty
\* (lines 629-632, 685-696, 896-898, 1085-1092, 1152-1163).
publishes_value(v, kind) ==
    /\ kind # "absent"
    /\ v \in {"Hardware", "ContHW"} => kind # "empty"

\* A variant that publishes the final state before the final value.
convergence_state_first(v, kind) ==
    <<"set_state_info_0", "clear_operation", "set_state_info_2">>
    \o (IF publishes_value(v, kind) THEN <<"put_value">> ELSE <<>>)

\* The calls made on one element, in order (lines 625-636, 681-700, 892-902,
\* 1081-1096, 1148-1167).
convergence(v, kind) ==
    <<"set_state_info_0">>
    \o (IF publishes_value(v, kind) THEN <<"put_value">> ELSE <<>>)
    \o <<"clear_operation", "set_state_info_2">>

\* The payload put_value is given: Software and ContSWCT put the value and
\* the index into lists; the others pass the value as it was read.
final_value(v, kind, index) ==
    LET value == IF kind = "data" THEN 10 ELSE 0
    IN IF v \in {"Software", "ContSWCT"}
       THEN SoftwareFinalValue(value, index)
       ELSE [value |-> IF kind = "data" THEN <<value>> ELSE <<>>,
             idx |-> <<>>, state |-> FALSE]

ConvIdle ==
    /\ conv_in = NoConv /\ conv_todo = {} /\ conv_cur = None /\ conv_k = 0
    /\ conv_log = <<>>

InitConv ==
    /\ conv_in \in ConvInputs
    /\ conv_todo = ConvElements /\ conv_cur = None /\ conv_k = 0
    /\ conv_log = <<>>

\* "for acquirable, state_info in states.items()": the next element, in the
\* order of the dictionary.
ConvElement ==
    /\ conv_cur = None /\ conv_todo # {}
    /\ \E e \in conv_todo :
         /\ conv_cur' = e
         /\ conv_todo' = conv_todo \ {e}
    /\ conv_k' = 0
    /\ UNCHANGED <<pureVars, iorVars, gateVars, startVars, loopVars, zeroVars, conv_in, conv_log>>

\* The next call on the current element.
ConvCall ==
    /\ conv_cur # None
    /\ LET steps == convergence(conv_in.variant, conv_in.values[conv_cur])
           call  == steps[conv_k + 1]
       IN /\ conv_log' = Append(conv_log,
                [element |-> conv_cur, call |-> call,
                 payload |-> IF call = "put_value"
                             THEN final_value(conv_in.variant,
                                              conv_in.values[conv_cur], conv_in.index)
                             ELSE NoPub])
          /\ IF conv_k + 1 = Len(steps)
             THEN conv_cur' = None /\ conv_k' = 0
             ELSE conv_k' = conv_k + 1 /\ UNCHANGED conv_cur
    /\ UNCHANGED <<pureVars, iorVars, gateVars, startVars, loopVars, zeroVars, conv_in, conv_todo>>

NextConv == ConvElement \/ ConvCall

(***************************************************************************)
(*   action_loop of the poll loops: PoolAcquisitionHardware,               *)
(*   PoolAcquisitionSoftware, PoolCTAcquisition, PoolContHWAcquisition,    *)
(*   PoolContSWCTAcquisition                                               *)
(***************************************************************************)

\* The most state reads of one loop that find the acquisition running.
MaxIter == 3

\* nb_states_per_value
StatesPerValue == {1, 2}

\* The 'slaves' argument the constructor is called with: CT, ContHW and
\* ContSWCT take one (lines 705, 906, 1101; None by default); the hardware
\* and software loops take none. None is <<>>, a given list l is <<l>>.
LoopSlaves(v) ==
    IF v \in {"CT", "ContHW", "ContSWCT"} THEN {<<>>, <<(<<"s1", "s2">>)>>} ELSE {<<>>}

\* PoolCTAcquisition.__init__, lines 708-710: "if slaves is None: slaves = ()";
\* self._slaves = slaves.
PoolCTAcquisition_init(slaves) == IF IsNone(slaves) THEN <<>> ELSE slaves[1]

\* self._slaves after construction: PoolContHWAcquisition.__init__ passes
\* slaves=slaves on (line 907), PoolContSWCTAcquisition.__init__ passes
\* slaves=None (line 1102).
init_slaves(v, slaves) ==
    CASE v = "CT"       -> PoolCTAcquisition_init(slaves)
      [] v = "ContHW"   -> PoolCTAcquisition_init(slaves)
      [] v = "ContSWCT" -> PoolCTAcquisition_init(<<>>)
      [] OTHER          -> <<>>

LoopInputs ==
    UNION {UNION {[variant : {v}, n : StatesPerValue, index : {1}, given : {g},
                   slaves : {init_slaves(v, g)}] : g \in LoopSlaves(v)}
           : v \in ConvVariants}

NoLoop == [variant |-> None, n |-> 1, index |-> 0, given |-> <<>>, slaves |-> <<>>]

\* What a read of the values leaves in 'values', of the results tried: data
\* for every element, or an empty payload for one element and, where the
\* dictionary is not filled beforehand, no entry for the other.
ReadResults(v) ==
    {r \in [ConvElements -> ValueKinds(v)] :
        \/ \A e \in ConvElements : r[e] = "data"
        \/ /\ r["e1"] = "empty"
           /\ r["e2"] = (IF "absent" \in ValueKinds(v) THEN "absent" ELSE "data")}

\* PoolAction._is_in_action: the state of an element that is acquiring.
is_in_action(s) == s = "Moving"

\* A variant in which the acquisition goes on only while every element is
\* in action.
in_acquisition_all(states) == \A e \in DOMAIN states : is_in_action(states[e])

\* Lines 434-447, 833-846: True at the first element in action, None
\* otherwise.
in_acquisition(states) == \E e \in DOMAIN states : is_in_action(states[e])

\* The loops that read the values once before they poll (lines 600-604,
\* 861-864, 1040-1048; commented out in ContSWCT, absent in Software).
first_sample(v) == v \in {"Hardware", "CT", "ContHW"}

\* A variant that reads the values in every iteration.
reads_values_always(v, i, n) == v \in {"Hardware", "CT", "ContHW"}

\* Lines 612, 872, 1056: "if not i % nb_states_per_value"; the software loop
\* has no value read, ContSWCT has it commented out.
reads_values(v, i, n) == v \in {"Hardware", "CT", "ContHW"} /\ i % n = 0

\* Lines 619, 878, 1067: "i += 1" (commented out in ContSWCT).
increments(v) == v \in {"Hardware", "CT", "ContHW"}

\* Whether a value read before the final one is handed to put_value: every
\* entry of 'values' in CT (lines 863-864, 874-875), the entries with a
\* non-empty payload in Hardware and ContHW (603, 615, 1047, 1063).
publishes_sample(v, kind) ==
    /\ kind # "absent"
    /\ v \in {"Hardware", "ContHW"} => kind # "empty"

\* The publications of one value read.
SamplePubs(v, stage, propagate, r) ==
    {[stage |-> stage, element |-> e, kind |-> r[e], propagate |-> propagate]
       : e \in {x \in DOMAIN r : publishes_sample(v, r[x])}}

\* A variant that lets the exception of a slave's stop_action out.
slave_stop_caught_reraised(exc) == exc

\* Lines 881-886, 1070-1075: "try: slave.stop_action() / except:" logs a
\* warning; nothing leaves the try.
slave_stop_caught(exc) == None

LoopIdle ==
    /\ lp_in = NoLoop /\ lp_pc = "idle" /\ lp_i = 0
    /\ hw_state = <<>> /\ lp_stopped = FALSE /\ lp_aborted = FALSE
    /\ lp_sreads = <<>> /\ lp_vreads = {} /\ lp_pubs = {}
    /\ lp_stops = <<>> /\ lp_final = <<>>

\* The loop begins after a start that left every channel acquiring, the
\* flags reset by start_action (lines 463-464, 725-726).
InitLoop ==
    /\ lp_in \in LoopInputs /\ lp_pc = "first" /\ lp_i = 0
    /\ hw_state = [e \in ConvElements |-> "Moving"]
    /\ lp_stopped = FALSE /\ lp_aborted = FALSE
    /\ lp_sreads = <<>> /\ lp_vreads = {} /\ lp_pubs = {}
    /\ lp_stops = <<>> /\ lp_final = <<>>

\* The controller of an element ends its acquisition.
ElementFinishes(e) ==
    /\ lp_pc \in {"first", "loop"}
    /\ hw_state[e] = "Moving"
    /\ hw_state' = [hw_state EXCEPT ![e] = "On"]
    /\ UNCHANGED <<pureVars, iorVars, gateVars, startVars, convVars, zeroVars, lp_in, lp_pc,
                   lp_i, lp_stopped, lp_aborted, lp_sreads, lp_vreads, lp_pubs,
                   lp_stops, lp_final>>

\* stop_action / abort_action of the action, called from another thread
\* while the loop runs: the flag is set.
LoopStopRequested ==
    /\ lp_pc \in {"first", "loop"}
    /\ ~lp_stopped /\ ~lp_aborted
    /\ \/ lp_stopped' = TRUE /\ UNCHANGED lp_aborted
       \/ lp_aborted' = TRUE /\ UNCHANGED lp_stopped
    /\ UNCHANGED <<pureVars, iorVars, gateVars, startVars, convVars, zeroVars, lp_in, lp_pc,
                   lp_i, hw_state, lp_sreads, lp_vreads, lp_pubs, lp_stops, lp_final>>

\* Lines 599-604, 860-864, 1039-1048: the values read before the loop are
\* published with propagate=2.
FirstSample ==
    /\ lp_pc = "first"
    /\ IF first_sample(lp_in.variant)
       THEN \E r \in ReadResults(lp_in.variant) :
               lp_pubs' = lp_pubs \cup SamplePubs(lp_in.variant, "first", "2", r)
       ELSE UNCHANGED lp_pubs
    /\ lp_pc' = "loop"
    /\ UNCHANGED <<pureVars, iorVars, gateVars, startVars, convVars, zeroVars, lp_in, lp_i,
                   hw_state, lp_stopped, lp_aborted, lp_sreads, lp_vreads, lp_stops,
                   lp_final>>

\* One iteration of "while True" (lines 606-619, 670-675, 866-878,
\* 1050-1067, 1122-1134): the states are read; the loop is left when no
\* element is in acquisition; otherwise the values are read every n-th time
\* and handed to put_value with its default propagation, and i is counted.
LoopIteration ==
    /\ lp_pc = "loop"
    /\ lp_sreads' = Append(lp_sreads, {e \in ConvElements : is_in_action(hw_state[e])})
    /\ IF ~in_acquisition(hw_state)
       THEN /\ lp_pc' = "slaves"
            /\ UNCHANGED <<lp_i, lp_vreads, lp_pubs>>
       ELSE /\ Len(lp_sreads) < MaxIter
            /\ IF reads_values(lp_in.variant, lp_i, lp_in.n)
               THEN /\ lp_vreads' = lp_vreads \cup {lp_i}
                    /\ \E r \in ReadResults(lp_in.variant) :
                         lp_pubs' = lp_pubs \cup
                             SamplePubs(lp_in.variant, "incremental", "default", r)
               ELSE UNCHANGED <<lp_vreads, lp_pubs>>
            /\ lp_i' = IF increments(lp_in.variant) THEN lp_i + 1 ELSE lp_i
            /\ UNCHANGED lp_pc
    /\ UNCHANGED <<pureVars, iorVars, gateVars, startVars, convVars, zeroVars, lp_in, hw_state,
                   lp_stopped, lp_aborted, lp_stops, lp_final>>

\* Lines 880-886, 1069-1075: the next slave is asked to stop; its stop may
\* raise.
SlaveStop ==
    /\ lp_pc = "slaves" /\ Len(lp_stops) < Len(lp_in.slaves)
    /\ \E exc \in {None, "StopError"} :
         /\ lp_stops' = Append(lp_stops,
                               [slave |-> lp_in.slaves[Len(lp_stops) + 1], exc |-> exc])
         /\ lp_pc' = IF exc # None /\ slave_stop_caught(exc) # None
                     THEN "raised" ELSE "slaves"
    /\ UNCHANGED <<pureVars, iorVars, gateVars, startVars, convVars, zeroVars, lp_in, lp_i,
                   hw_state, lp_stopped, lp_aborted, lp_sreads, lp_vreads, lp_pubs,
                   lp_final>>

\* Lines 622, 678, 889, 1078, 1145: the final read of the states, once the
\* slaves were gone through.
FinalStateRead ==
    /\ lp_pc = "slaves" /\ Len(lp_stops) = Len(lp_in.slaves)
    /\ lp_final' = Append(lp_final, "state")
    /\ lp_pc' = "final_value"
    /\ UNCHANGED <<pureVars, iorVars, gateVars, startVars, convVars, zeroVars, lp_in, lp_i,
                   hw_state, lp_stopped, lp_aborted, lp_sreads, lp_vreads, lp_pubs,
                   lp_stops>>

\* Lines 623, 679, 890, 1079, 1146: the final read of the values; the
\* convergence over the elements follows.
FinalValueRead ==
    /\ lp_pc = "final_value"
    /\ lp_final' = Append(lp_final, "value")
    /\ \E r \in ReadResults(lp_in.variant) :
         conv_in' = [variant |-> lp_in.variant, values |-> r, index |-> lp_in.index]
    /\ conv_todo' = ConvElements /\ conv_cur' = None /\ conv_k' = 0
    /\ conv_log' = <<>>
    /\ lp_pc' = "convergence"
    /\ UNCHANGED <<pureVars, iorVars, gateVars, startVars, zeroVars, lp_in, lp_i,
                   hw_state, lp_stopped, lp_aborted, lp_sreads, lp_vreads, lp_pubs,
                   lp_stops>>

\* action_loop returns after the last element of the convergence.
LoopReturn ==
    /\ lp_pc = "convergence" /\ conv_todo = {} /\ conv_cur = None
    /\ lp_pc' = "done"
    /\ UNCHANGED <<pureVars, iorVars, gateVars, startVars, convVars, zeroVars, lp_in, lp_i,
                   hw_state, lp_stopped, lp_aborted, lp_sreads, lp_vreads, lp_pubs,
                   lp_stops, lp_final>>

\* The steps of the thread that runs action_loop.
LoopSteps ==
    \/ FirstSample \/ LoopIteration \/ SlaveStop \/ FinalStateRead
    \/ FinalValueRead \/ LoopReturn \/ ConvElement \/ ConvCall

NextLoop ==
    \/ LoopSteps
    \/ \E e \in ConvElements : ElementFinishes(e)
    \/ LoopStopRequested

(***************************************************************************)
(*   Pool0DAcquisition: start_action, action_loop, stop_action,            *)
(*   abort_action                                                          *)
(***************************************************************************)

\* The most samples of one cycle.
MaxSamples == 3

\* The coordinator's variables a ZeroD cycle does not touch.
gateOther == <<sw_acq_config, zd_config, sw_acq_busy, zd_acq_busy, ev, nev, nruns,
               jobs, sw_index, runVars, handled>>

\* The controllers of the configurations tried (with get_ctrl_types above:
\* p1 counter/timer, p2 ZeroD, p3 both), and their channels.
ZeroCtrls == {"p1", "p2", "p3"}

ZeroChannelsOf(c) ==
    CASE c = "p1" -> {"k1"}
      [] c = "p2" -> {"d1", "d2"}
      [] OTHER    -> {"m1"}

ZeroElements == UNION {ZeroChannelsOf(c) : c \in ZeroCtrls}

\* kwargs of start_action: config['controllers'] and idx.
ZeroInputs == [controllers : SUBSET ZeroCtrls, idx : {1, 2}]

NoZero == [controllers |-> {}, idx |-> 0]

\* What an earlier cycle left in a channel's buffer: nothing, or a sample
\* of trigger index 0.
StaleBuffers == {<<>>, <<[index |-> 0, propagate |-> 0]>>}

\* What an earlier cycle left in self._channels.
StaleChannels == {{}, {"m1"}}

\* A variant that looks at the first type of the controller only.
zerod_controllers_first_type(ctrls) ==
    {c \in ctrls : get_ctrl_types(c)[1] = "ZeroDExpChannel"}

\* Lines 1203-1205: "if ElementType.ZeroDExpChannel in ctrl.get_ctrl_types()".
zerod_controllers(ctrls) ==
    {c \in ctrls : "ZeroDExpChannel" \in Range(get_ctrl_types(c))}

\* A variant that publishes the final state before the operation is cleared.
zerod_convergence_publish_first ==
    <<[call |-> "set_state_info", propagate |-> 0],
      [call |-> "set_state_info", propagate |-> 2],
      [call |-> "clear_operation", propagate |-> 0]>>

\* Lines 1263-1267: the calls made on one element after the loop.
zerod_convergence ==
    <<[call |-> "set_state_info", propagate |-> 0],
      [call |-> "clear_operation", propagate |-> 0],
      [call |-> "set_state_info", propagate |-> 2]>>

\* Line 1250: "if self._stopped or self._aborted".
zerod_exit(stopped, aborted) == stopped \/ aborted

ZeroEntry(call, element, index, propagate) ==
    [call |-> call, element |-> element, index |-> index, propagate |-> propagate]

ZeroIdle ==
    /\ zd_pc = "idle" /\ zd_in = NoZero /\ zd_channels = {} /\ zd_todo = {}
    /\ zd_buffer = <<>> /\ zd_chan = <<>> /\ zd_samples = 0 /\ zd_log = <<>>

\* Before start_action: the flags, the channel set and the buffers are what
\* earlier cycles left.
InitZero ==
    /\ zd_pc = "start" /\ zd_in \in ZeroInputs
    /\ zd_channels \in StaleChannels /\ zd_todo = {}
    /\ \E b \in StaleBuffers : zd_buffer = [e \in ZeroElements |-> b]
    /\ zd_chan = [e \in ZeroElements |-> [state |-> "On", propagate |-> 0]]
    /\ zd_samples = 0 /\ zd_log = <<>>

\* Lines 1269-1271: stop_action, called from another thread at any time.
Zero_stop_action ==
    /\ zd_pc \in {"start", "clear", "loop"} /\ ~zd_stopped
    /\ zd_stopped' = TRUE
    /\ UNCHANGED <<pureVars, iorVars, gateOther, startVars, convVars, loopVars, zeroVars,
                   zd_aborted, zd_conf_idx>>

\* Lines 1273-1275: abort_action.
Zero_abort_action ==
    /\ zd_pc \in {"start", "clear", "loop"} /\ ~zd_aborted
    /\ zd_aborted' = TRUE
    /\ UNCHANGED <<pureVars, iorVars, gateOther, startVars, convVars, loopVars, zeroVars,
                   zd_stopped, zd_conf_idx>>

\* Lines 1183-1216: the keywords are kept, the flags reset, the controllers
\* of the ZeroD type selected and the channel set built anew.
Zero_start_action ==
    /\ zd_pc = "start"
    /\ zd_conf_idx' = zd_in.idx
    /\ zd_aborted' = FALSE /\ zd_stopped' = FALSE
    /\ zd_channels' = UNION {ZeroChannelsOf(c) : c \in zerod_controllers(zd_in.controllers)}
    /\ zd_todo' = zd_channels'
    /\ zd_pc' = "clear"
    /\ UNCHANGED <<pureVars, iorVars, gateOther, startVars, convVars, loopVars, zd_in,
                   zd_buffer, zd_chan, zd_samples, zd_log>>

\* Lines 1218-1222: the next channel has its buffer cleared and goes to
\* Moving with propagation.
ZeroClear ==
    /\ zd_pc = "clear" /\ zd_todo # {}
    /\ \E e \in zd_todo :
         /\ zd_buffer' = [zd_buffer EXCEPT ![e] = <<>>]
         /\ zd_chan' = [zd_chan EXCEPT ![e] = [state |-> "Moving", propagate |-> 2]]
         /\ zd_todo' = zd_todo \ {e}
    /\ UNCHANGED <<pureVars, iorVars, gateVars, startVars, convVars, loopVars, zd_pc, zd_in,
                   zd_channels, zd_samples, zd_log>>

\* start_action returns; action_loop begins.
ZeroStarted ==
    /\ zd_pc = "clear" /\ zd_todo = {}
    /\ zd_pc' = "loop"
    /\ UNCHANGED <<pureVars, iorVars, gateVars, startVars, convVars, loopVars, zd_in,
                   zd_channels, zd_todo, zd_buffer, zd_chan, zd_samples, zd_log>>

\* One iteration of the loop (lines 1246-1252): every channel is given its
\* sample with index=self.conf['idx'] and propagate=0; then the flags are
\* looked at.
ZeroSample ==
    /\ zd_pc = "loop"
    /\ zd_buffer' = [e \in DOMAIN zd_buffer |->
                       IF e \in zd_channels
                       THEN Append(zd_buffer[e], [index |-> zd_conf_idx, propagate |-> 0])
                       ELSE zd_buffer[e]]
    /\ zd_log' = Append(zd_log, ZeroEntry("put_value", zd_channels, zd_conf_idx, 0))
    /\ zd_samples' = zd_samples + 1
    /\ IF zerod_exit(zd_stopped, zd_aborted)
       THEN zd_pc' = "propagate" /\ zd_todo' = zd_channels
       ELSE zd_samples < MaxSamples - 1 /\ UNCHANGED <<zd_pc, zd_todo>>
    /\ UNCHANGED <<pureVars, iorVars, gateVars, startVars, convVars, loopVars, zd_in,
                   zd_channels, zd_chan>>

\* Lines 1254-1255: the next channel is asked to propagate its buffer.
ZeroPropagate ==
    /\ zd_pc = "propagate" /\ zd_todo # {}
    /\ \E e \in zd_todo :
         /\ zd_log' = Append(zd_log, ZeroEntry("propagate_value", {e}, zd_conf_idx, 1))
         /\ zd_todo' = zd_todo \ {e}
    /\ UNCHANGED <<pureVars, iorVars, gateVars, startVars, convVars, loopVars, zd_pc, zd_in,
                   zd_channels, zd_buffer, zd_chan, zd_samples>>

\* Lines 1257-1258: the states are read.
ZeroReadState ==
    /\ zd_pc = "propagate" /\ zd_todo = {}
    /\ zd_log' = Append(zd_log, ZeroEntry("raw_read_state_info", zd_channels, zd_conf_idx, 0))
    /\ zd_todo' = zd_channels
    /\ zd_pc' = "convergence"
    /\ UNCHANGED <<pureVars, iorVars, gateVars, startVars, convVars, loopVars, zd_in,
                   zd_channels, zd_buffer, zd_chan, zd_samples>>

\* Lines 1260-1267: the three calls on the next element of 'states'.
ZeroConverge ==
    /\ zd_pc = "convergence" /\ zd_todo # {}
    /\ \E e \in zd_todo :
         /\ zd_log' = zd_log \o
               [k \in 1..Len(zerod_convergence) |->
                  ZeroEntry(zerod_convergence[k].call, {e}, zd_conf_idx,
                            zerod_convergence[k].propagate)]
         /\ zd_chan' = [zd_chan EXCEPT ![e] = [state |-> "On", propagate |-> 2]]
         /\ zd_todo' = zd_todo \ {e}
    /\ UNCHANGED <<pureVars, iorVars, gateVars, startVars, convVars, loopVars, zd_pc, zd_in,
                   zd_channels, zd_buffer, zd_samples>>

\* action_loop returns.
ZeroReturn ==
    /\ zd_pc = "convergence" /\ zd_todo = {}
    /\ zd_pc' = "done"
    /\ UNCHANGED <<pureVars, iorVars, gateVars, startVars, convVars, loopVars, zd_in,
                   zd_channels, zd_todo, zd_buffer, zd_chan, zd_samples, zd_log>>

NextZero ==
    \/ Zero_stop_action \/ Zero_abort_action \/ Zero_start_action
    \/ ZeroClear \/ ZeroStarted \/ ZeroSample
    \/ ZeroPropagate \/ ZeroReadState \/ ZeroConverge \/ ZeroReturn

(***************************************************************************)
(*                 PoolIORAcquisition: action_loop                         *)
(***************************************************************************)

IORElements == {"r1", "r2", "r3"}

\* self._channels when action_loop begins: None as __init__ left it (line
\* 1281; start_action is "pass"), or a set of elements assigned from outside
\* the class. None is <<>>, a given set S is <<S>>.
IORChannels == {<<>>} \cup {<<S>> : S \in (SUBSET IORElements) \ {{}}}

\* Lines 1287-1288: "return True" whatever the states are.
IOR_in_acquisition(states) == TRUE

\* A call made on an element.
IORCall(stage, call, element, propagate) ==
    [stage |-> stage, call |-> call, element |-> element, propagate |-> propagate]

\* Lines 1320-1325 and the finish hook, lines 1332-1340: after the loop the
\* states are set with propagate=0; the hook publishes the values and then
\* the states with propagate=2.
IORAfterLoop(channels) ==
    {IORCall("after_loop", "set_state_info", e, "0") : e \in channels}
    \cup {IORCall("finish_hook", "put_value", e, "2") : e \in channels}
    \cup {IORCall("finish_hook", "set_state_info", e, "2") : e \in channels}

\* No PoolIORAcquisition runs.
IORIdle ==
    /\ ior_pc = "idle" /\ ior_channels = <<>> /\ ior_i = 0
    /\ ior_state = <<>> /\ ior_log = {} /\ ior_hook = FALSE

InitIOR ==
    /\ ior_pc = "begin" /\ ior_channels \in IORChannels /\ ior_i = 0
    /\ ior_state = [e \in IORElements |-> "Moving"]
    /\ ior_log = {} /\ ior_hook = FALSE

\* The controller of an element ends its operation.
IORElementFinishes(e) ==
    /\ ior_pc \in {"begin", "first", "loop"}
    /\ ior_state[e] = "Moving"
    /\ ior_state' = [ior_state EXCEPT ![e] = "On"]
    /\ UNCHANGED <<pureVars, gateVars, startVars, convVars, loopVars, zeroVars,
                   ior_pc, ior_channels, ior_i, ior_log, ior_hook>>

\* Lines 1293-1298: "for element in self._channels" raises TypeError when
\* self._channels is None.
IORBegin ==
    /\ ior_pc = "begin"
    /\ ior_pc' = IF IsNone(ior_channels) THEN "raised" ELSE "first"
    /\ UNCHANGED <<pureVars, gateVars, startVars, convVars, loopVars, zeroVars,
                   ior_channels, ior_i, ior_state, ior_log, ior_hook>>

\* Lines 1301-1303: the values read before the loop are published with
\* propagate=2.
IORFirstSample ==
    /\ ior_pc = "first"
    /\ ior_log' = ior_log \cup
                     {IORCall("first", "put_value", e, "2") : e \in ior_channels[1]}
    /\ ior_pc' = "loop"
    /\ UNCHANGED <<pureVars, gateVars, startVars, convVars, loopVars, zeroVars,
                   ior_channels, ior_i, ior_state, ior_hook>>

\* One iteration of "while True" (lines 1305-1318): the states are read; the
\* loop is left when in_acquisition gives a falsy result, and then the
\* statements after the loop run and the finish hook is registered (lines
\* 1320-1342); otherwise the values are read and published every fifth time
\* and i is counted (kept modulo 5, all that is read of it).
IORIteration ==
    /\ ior_pc = "loop"
    /\ LET states == [e \in ior_channels[1] |-> ior_state[e]]
       IN IF ~IOR_in_acquisition(states)
          THEN /\ ior_log' = ior_log \cup IORAfterLoop(ior_channels[1])
               /\ ior_hook' = TRUE
               /\ ior_pc' = "done"
               /\ UNCHANGED ior_i
          ELSE /\ ior_log' = IF ior_i % 5 = 0
                             THEN ior_log \cup {IORCall("incremental", "put_value", e,
                                                        "default") : e \in ior_channels[1]}
                             ELSE ior_log
               /\ ior_i' = (ior_i + 1) % 5
               /\ UNCHANGED <<ior_pc, ior_hook>>
    /\ UNCHANGED <<pureVars, gateVars, startVars, convVars, loopVars, zeroVars,
                   ior_channels, ior_state>>

\* The steps of the thread that runs action_loop.
IORSteps == IORBegin \/ IORFirstSample \/ IORIteration

NextIOR == IORSteps \/ \E e \in IORElements : IORElementFinishes(e)

Init == InitGate /\ PureIdle /\ StartIdle /\ ConvIdle /\ LoopIdle /\ ZeroIdle /\ IORIdle

Next == NextGate

Spec == Init /\ [][Next]_vars

SpecSources == Init /\ [][NextSources]_vars

SpecRuns == Init /\ [][NextRuns]_vars

InitP == InitPure /\ InitGate /\ StartIdle /\ ConvIdle /\ LoopIdle /\ ZeroIdle /\ IORIdle

NextP == NextPure

SpecPure == InitP /\ [][NextP]_vars

InitS == InitStart /\ InitGate /\ PureIdle /\ ConvIdle /\ LoopIdle /\ ZeroIdle /\ IORIdle

NextS == NextStart

SpecStart == InitS /\ [][NextS]_vars

InitC == InitConv /\ InitGate /\ PureIdle /\ StartIdle /\ LoopIdle /\ ZeroIdle /\ IORIdle

NextC == NextConv

SpecConv == InitC /\ [][NextC]_vars

InitL == InitLoop /\ InitGate /\ PureIdle /\ StartIdle /\ ConvIdle /\ ZeroIdle /\ IORIdle

NextL == NextLoop

SpecLoop == InitL /\ [][NextL]_vars

\* The thread that runs action_loop is scheduled again and again; nothing
\* binds a controller to end its acquisition.
SpecLoopFair == InitL /\ [][NextL]_vars /\ WF_vars(LoopSteps)

InitZ == InitZero /\ InitGate /\ PureIdle /\ StartIdle /\ ConvIdle /\ LoopIdle /\ IORIdle

NextZ == NextZero

SpecZero == InitZ /\ [][NextZ]_vars

InitI == InitIOR /\ InitGate /\ PureIdle /\ StartIdle /\ ConvIdle /\ LoopIdle /\ ZeroIdle

NextI == NextIOR

\* The thread that runs action_loop is scheduled again and again; nothing
\* binds a controller to end its operation.
SpecIORFair == InitI /\ [][NextI]_vars /\ WF_vars(IORSteps)

\* The worker pool's threads run every dispatched callable and deliver its
\* result to the callback; nothing binds a controller to fail.
SpecFair == Init /\ [][Next]_vars /\ \A j \in 1..MaxJobs : WF_vars(WorkerProgress(j))

(***************************************************************************)
(*                              CLAIMS                                     *)
(***************************************************************************)

Kinds == {"sw", "zd"}

Busy(kind) == IF kind = "sw" THEN sw_acq_busy ELSE zd_acq_busy

\* The cycles of a sub-acquisition that were dispatched and whose completion
\* callback has not fired yet.
InFlight(kind) == {j \in DOMAIN jobs : jobs[j].kind = kind /\ jobs[j].phase # "done"}

\* C1: with one event source, neither debounced sub-acquisition (software
\* continuous-count, ZeroD) ever has two dispatched cycles whose completion
\* callback has not fired; while a cycle is in flight its busy flag is set.
C1_AtMostOneInFlight ==
    \A kind \in Kinds :
        /\ Cardinality(InFlight(kind)) <= 1
        /\ InFlight(kind) # {} => Busy(kind)

\* A second software cycle was dispatched after the first one's callback
\* fired, and is in flight.
C1_Witness ==
    \E j1, j2 \in DOMAIN jobs :
        /\ j1 < j2 /\ jobs[j1].kind = "sw" /\ jobs[j2].kind = "sw"
        /\ jobs[j1].phase = "done" /\ jobs[j2].phase \in {"queued", "loop"}

\* C2: once a dispatched callable has returned, whether its cycle succeeded
\* or raised, the gate of its sub-acquisition eventually is Idle again.
C2_GateReturnsToIdle ==
    \A kind \in Kinds :
        (\E j \in DOMAIN jobs : jobs[j].kind = kind /\ jobs[j].phase = "returned")
            ~> ~Busy(kind)

\* A cycle raised, its callback fired and its gate is Idle.
C2_Witness ==
    \E j \in DOMAIN jobs :
        /\ jobs[j].outcome = "raised" /\ jobs[j].phase = "done"
        /\ ~Busy(jobs[j].kind)

\* ---- the load/start sequence (SpecStart) ----

CallsOf(op) == {i \in DOMAIN calls : calls[i].op = op}

TimerableCtrls == {c \in DOMAIN Cfg.controllers : is_timerable(c)}

EnabledChannels(c) == {e \in DOMAIN Cfg.controllers[c].channels :
                          Cfg.controllers[c].channels[e].enabled}

\* C3: for each of PreLoadOne, LoadOne, PreStartOne and StartOne, a call of
\* that kind on the controller of the master channel comes after every call
\* of that kind on another controller, and by then every other timerable
\* controller of the configuration has had its calls of that kind (PreLoadOne
\* and LoadOne once, PreStartOne and StartOne for each enabled channel).
C3_MasterControllerLast ==
    \A op \in {"PreLoadOne", "LoadOne", "PreStartOne", "StartOne"} :
      \A i \in CallsOf(op) :
        calls[i].ctrl = MasterCtrl =>
          /\ \A j \in CallsOf(op) : calls[j].ctrl # MasterCtrl => j < i
          /\ \A c \in TimerableCtrls \ {MasterCtrl} :
               IF op \in {"PreLoadOne", "LoadOne"}
               THEN \E j \in CallsOf(op) : j < i /\ calls[j].ctrl = c
               ELSE \A e \in EnabledChannels(c) :
                      \E j \in CallsOf(op) : j < i /\ calls[j].axis = e

\* A start of two controllers ran to its end and started channels of both.
C3_Witness ==
    /\ st_pc = "done" /\ Len(pool_ctrls) = 2
    /\ \E i, j \in CallsOf("StartOne") :
         calls[i].ctrl = MasterCtrl /\ calls[j].ctrl # MasterCtrl

StartOps == {"PreStartOne", "StartOne"}

\* C4: in every variant (Base, CT, ContHW), within each controller the
\* PreStartOne and StartOne of the controller's timer/monitor channel come
\* after the PreStartOne and StartOne of its other enabled channels.
C4_MasterChannelLast ==
    \A i, j \in DOMAIN calls :
        /\ calls[i].op \in StartOps /\ calls[j].op \in StartOps
        /\ calls[i].ctrl = calls[j].ctrl
        /\ calls[i].axis = MasterOf(Cfg.controllers[calls[i].ctrl])
        /\ calls[j].axis # calls[i].axis
        => j < i

ConfigurationErrors ==
    {"must give integration time or monitor counts",
     "must give either integration time or monitor counts (not both)"}

ExactlyOneGiven == IsNone(kw.integ_time) # IsNone(kw.monitor_count)

\* C5: once the arguments were looked at, a start given neither or both of
\* integration time and monitor count has raised the configuration error
\* with no controller call issued and no channel set to Moving; a start given
\* exactly one has not raised it, and if it raises at all (the configuration
\* being such that the master controller is timerable and, for ContHW,
\* repetitions is given) it does so within the controller sequence.
C5_ExactlyOneOrConfigurationError ==
    st_pc # "start" =>
      IF ExactlyOneGiven
      THEN /\ error \notin ConfigurationErrors
           /\ (st_pc = "raised" /\ MasterCtrl \in TimerableCtrls
               /\ (variant = "ContHW" => ~IsNone(kw.repetitions)))
              => calls # <<>>
      ELSE /\ st_pc = "raised" /\ error \in ConfigurationErrors
           /\ calls = <<>>
           /\ \A e \in DOMAIN chan_state : chan_state[e] # "Moving"

\* A start given both integration time and monitor count has raised.
C5_Witness ==
    /\ ~IsNone(kw.integ_time) /\ ~IsNone(kw.monitor_count)
    /\ st_pc = "raised" /\ error \in ConfigurationErrors

\* C6: a PreStartOne that returned a falsy result is the last controller
\* call of the start: the start has raised, no StartOne was or is issued for
\* that channel, no StartAll was issued and no channel is Moving.
C6_PreStartOneFalsyAborts ==
    \A i \in CallsOf("PreStartOne") :
        ~calls[i].res =>
          /\ i = Len(calls)
          /\ st_pc = "raised" /\ error = "PreStartOne returns False"
          /\ \A j \in CallsOf("StartOne") : calls[j].axis # calls[i].axis
          /\ CallsOf("StartAll") = {}
          /\ \A e \in DOMAIN chan_state : chan_state[e] # "Moving"

\* PreStartOne failed on a channel after another channel had been started.
C6_Witness ==
    /\ CallsOf("StartOne") # {}
    /\ \E i \in CallsOf("PreStartOne") : ~calls[i].res

\* C7: a PreLoadOne that returned a falsy result is the last controller call
\* of the start: the start has raised, neither LoadOne nor LoadAll was issued
\* on that controller, and nothing is called after it on any controller.
C7_PreLoadOneFalsyAborts ==
    \A i \in CallsOf("PreLoadOne") :
        ~calls[i].res =>
          /\ i = Len(calls)
          /\ st_pc = "raised" /\ error = "PreLoadOne returned False"
          /\ \A j \in CallsOf("LoadOne") \cup CallsOf("LoadAll") :
               calls[j].ctrl # calls[i].ctrl

\* PreLoadOne failed on the second controller, the first one being loaded.
C7_Witness ==
    /\ CallsOf("LoadAll") # {}
    /\ \E i \in CallsOf("PreLoadOne") : ~calls[i].res

\* ---- the pure transforms (SpecPure) ----

\* C8: for two or more groups extract_integ_time returns each group's active
\* time repeated by its repeat count, concatenated in group order.
C8_SeveralGroupsConcatenated ==
    (pure_op = "extract_integ_time" /\ pure_pc = "done" /\ Len(synchronization) >= 2)
        => integ_out = ListResult(ConcatRepeats(synchronization))

\* C9: for exactly one group extract_integ_time returns the group's active
\* time as a scalar, whatever the repeat count.
C9_OneGroupScalar ==
    (pure_op = "extract_integ_time" /\ pure_pc = "done" /\ Len(synchronization) = 1)
        => /\ integ_out.kind = "float"
           /\ integ_out.scalar = synchronization[1].time
           /\ integ_out.list = <<>>

\* One group with a repeat count above one was given.
C9_Witness ==
    /\ pure_op = "extract_integ_time" /\ pure_pc = "done"
    /\ Len(synchronization) = 1 /\ synchronization[1].repeats > 1

\* C10: every controller of the input is in exactly one output: ZeroD when
\* its first type is ZeroD; otherwise software when its trigger element is
\* None or a software trigger/gate, hardware otherwise; with its info
\* unchanged. The outputs are pairwise disjoint and cover the input.
C10_SplitPartitions ==
    (pure_op = "split_MGConfigurations" /\ pure_pc = "done") =>
      LET hw == DOMAIN split_out.hw
          sw == DOMAIN split_out.sw
          zd == DOMAIN split_out.zd
      IN /\ hw \cap sw = {} /\ hw \cap zd = {} /\ sw \cap zd = {}
         /\ hw \cup sw \cup zd = DOMAIN mg_cfg_in
         /\ \A c \in DOMAIN mg_cfg_in :
              LET tg == mg_cfg_in[c].trigger_element
              IN /\ c \in zd <=> get_ctrl_types(c)[1] = "ZeroDExpChannel"
                 /\ c \in sw <=> (get_ctrl_types(c)[1] # "ZeroDExpChannel"
                                   /\ (tg = None \/ is_software_tg(tg)))
                 /\ c \in hw <=> (get_ctrl_types(c)[1] # "ZeroDExpChannel"
                                   /\ tg # None /\ ~is_software_tg(tg))
                 /\ c \in hw => split_out.hw[c] = mg_cfg_in[c]
                 /\ c \in sw => split_out.sw[c] = mg_cfg_in[c]
                 /\ c \in zd => split_out.zd[c] = mg_cfg_in[c]

\* A ZeroD controller with a hardware trigger element went to the ZeroD
\* output, and the software and hardware outputs are not empty.
C10_Witness ==
    /\ pure_op = "split_MGConfigurations" /\ pure_pc = "done"
    /\ DOMAIN split_out.sw # {} /\ DOMAIN split_out.hw # {}
    /\ \E c \in DOMAIN split_out.zd : mg_cfg_in[c].trigger_element = "hw_tg"

\* ---- the trigger events and the dispatched cycles (Spec, SpecFair) ----

\* The calls of event_received: those that returned and those running.
EventCalls == Range(handled) \cup {Handled(ev[s]) : s \in {x \in Sources : ev[x].pc # "idle"}}

JobsOf(kind, id) == {j \in DOMAIN jobs : jobs[j].kind = kind /\ jobs[j].idx = id}

\* C11: a step of event_received taken for a Passive event never changes the
\* software busy flag, the software configuration or the software
\* sub-acquisition and never dispatches a cycle; taken while the ZeroD busy
\* flag is clear it requests no stop and leaves both busy flags and both
\* cached configurations as they were.
C11_PassiveWhileIdleIsNoOp ==
    [][\A s \in Sources :
          (ev[s].type = "Passive" \/ ev'[s].type = "Passive") /\ ev'[s] # ev[s] =>
             /\ UNCHANGED <<sw_acq_busy, sw_acq_config, sw_index, jobs,
                             zd_acq_busy, zd_config, zd_aborted, zd_conf_idx>>
             /\ ~zd_acq_busy => UNCHANGED zd_stopped
             /\ ev'[s].dispatched = {} /\ ev'[s].skipped = {}]_vars

\* A Passive event was handled that found a ZeroD configuration cached and
\* the ZeroD flag clear, after a ZeroD cycle had run.
C11_Witness ==
    \E i \in DOMAIN handled :
        /\ handled[i].type = "Passive" /\ handled[i].zd_ready /\ ~handled[i].stop
        /\ \E j \in DOMAIN jobs : jobs[j].kind = "zd" /\ jobs[j].idx < handled[i].id

\* C12: every software cycle was launched by an Active event the software
\* gate accepted, one cycle per event, and carries that event's id; while
\* the cycle is in its loop the index of the software sub-acquisition is
\* that id, whatever events were received meanwhile; the final value the
\* cycle publishes is a one-element list and its index is [id].
C12_FinalValueCarriesEventId ==
    /\ \A e \in EventCalls :
          "sw" \in e.dispatched => e.type = "Active" /\ Cardinality(JobsOf("sw", e.id)) = 1
    /\ \A j \in DOMAIN jobs : jobs[j].kind = "sw" =>
          /\ \E e \in EventCalls : e.id = jobs[j].idx /\ "sw" \in e.dispatched
          /\ jobs[j].phase = "loop" => sw_index = jobs[j].idx
          /\ jobs[j].outcome = "ok" =>
                /\ jobs[j].pub.idx = <<jobs[j].idx>>
                /\ Len(jobs[j].pub.value) = 1 /\ jobs[j].pub.value[1] \in Values
                /\ jobs[j].pub.state

\* The second event launched a software cycle that published its final
\* value, and the event after it was skipped while that cycle ran.
C12_Witness ==
    \E j \in DOMAIN jobs, i \in DOMAIN handled :
        /\ jobs[j].kind = "sw" /\ jobs[j].outcome = "ok" /\ jobs[j].idx = 2
        /\ handled[i].id = 3 /\ "sw" \in handled[i].skipped

\* The cycles that published a final value carrying the index id.
PublishedWith(kind, id) ==
    {j \in DOMAIN jobs : jobs[j].kind = kind /\ jobs[j].pub.idx = <<id>>}

\* C14: an Active event for which 'Skipping trigger' was logged for a
\* sub-acquisition is not served by it, then or later: no cycle of that
\* sub-acquisition carries its id and no final value is published with its
\* id; and the step that skips it leaves the busy flags, the cached
\* configurations, the worker pool's callables and the sub-acquisitions as
\* they were.
C14_DroppedEventNeverServed ==
    /\ [](\A e \in EventCalls : \A kind \in e.skipped :
             /\ e.type = "Active"
             /\ kind \notin e.dispatched
             /\ JobsOf(kind, e.id) = {} /\ PublishedWith(kind, e.id) = {}
             /\ (IF kind = "sw" THEN sw_acq_config ELSE zd_config).idx # e.id)
    /\ [][\A s \in Sources :
            ev[s].pc \in {"sw_check", "zd_check"}
            /\ (IF ev'[s].pc = "idle" THEN handled'[Len(handled')] ELSE ev'[s]).skipped
                  # ev[s].skipped
            => /\ UNCHANGED <<sw_acq_busy, zd_acq_busy, sw_acq_config, zd_config, jobs,
                               sw_index, zd_stopped, zd_aborted, zd_conf_idx>>
               /\ ev'[s].pc = "idle"]_vars

\* The second event was skipped by the software gate, the cycle that was
\* running then has completed, the gate is Idle, and the third event has been
\* answered with a new cycle.
C14_Witness ==
    \E i, k \in DOMAIN handled :
        /\ handled[i].id = 2 /\ "sw" \in handled[i].skipped
        /\ handled[k].id = 3 /\ "sw" \in handled[k].dispatched
        /\ \E j \in JobsOf("sw", 1) : jobs[j].phase = "done"

\* C15: the two gates do not depend on each other: an Active event received
\* while a ZeroD configuration is cached and the ZeroD flag is clear
\* dispatches a ZeroD cycle, whatever the software flag; an Active event
\* received while a software configuration is cached and the software flag
\* is clear dispatches a software cycle, whatever the ZeroD flag.
C15_GatesIndependent ==
    \A i \in DOMAIN handled :
        handled[i].type = "Active" =>
          /\ handled[i].zd_ready => "zd" \in handled[i].dispatched
          /\ handled[i].sw_ready => "sw" \in handled[i].dispatched

\* C16: once a Passive event has called stop_action of the ZeroD
\* acquisition (its flag being set) and has returned, the ZeroD gate is
\* eventually Idle again, with or without a further event, wherever the
\* worker was in the cycle when the stop was requested.
C16_PassiveStopTakesEffect ==
    (/\ handled # <<>> /\ Len(handled) = nev
     /\ handled[Len(handled)].type = "Passive" /\ handled[Len(handled)].stop)
        ~> ~zd_acq_busy

\* The software and the ZeroD cycle one Active event dispatched.
Pairs == {p \in (DOMAIN jobs) \X (DOMAIN jobs) :
             /\ jobs[p[1]].kind = "sw" /\ jobs[p[2]].kind = "zd"
             /\ jobs[p[1]].idx = jobs[p[2]].idx}

\* The cycle has ended and nothing was raised in it.
EndedWell(j) == jobs[j].phase \in {"returned", "done"} /\ jobs[j].exc = None

\* Whether a cycle is where 'at' says: in a phase, or somewhere after a
\* failure.
JobAt(j, at) ==
    CASE at = "any"    -> TRUE
      [] at = "raised" -> jobs[j].outcome = "raised"
      [] at = "failed" -> jobs[j].outcome = "raised" /\ jobs[j].phase = "returned"
      [] OTHER         -> jobs[j].phase = at

\* Job j is a cycle of one of the kinds that is where 'at' says, and the
\* other cycle its event dispatched is where 'other_at' says.
WithOther(j, kinds, at, other_at) ==
    IF j \in DOMAIN jobs
    THEN /\ jobs[j].kind \in kinds /\ JobAt(j, at)
         /\ \E p \in Pairs : \E k \in {p[1], p[2]} \ {j} :
                j \in {p[1], p[2]} /\ JobAt(k, other_at)
    ELSE FALSE

\* A cycle of the kind, dispatched together with a cycle of the other kind,
\* is on its way out: it has returned, or the other cycle has failed and it
\* is in the phase 'at'.  A gate has one cycle at a time, so this is the cycle
\* that holds the gate of the kind.
OnItsWayOut(kind, at) ==
    \E j \in 1..MaxJobs :
        \/ WithOther(j, {kind}, at, "raised")
        \/ WithOther(j, {kind}, "returned", "any")

\* C18: of the two cycles one Active event dispatched, a cycle that ends
\* without a failure of its own has published its final state, whatever
\* happened in the other; a failure in one cycle does not keep the other from
\* ending and releasing its gate (the software cycle once in its loop, the
\* ZeroD cycle once it left its loop); and the gate of a cycle that returned,
\* failed or not, is eventually Idle.
C18_FailureIsContained ==
    /\ [](\A p \in Pairs : \A j \in {p[1], p[2]} :
             EndedWell(j) => jobs[j].pub.state)
    /\ OnItsWayOut("sw", "loop") ~> ~sw_acq_busy
    /\ OnItsWayOut("zd", "final") ~> ~zd_acq_busy

\* One Active event dispatched both cycles; the software cycle failed in its
\* start, the ZeroD cycle ran to its end and published its final state, and
\* both gates are Idle.
C18_Witness ==
    \E p \in Pairs :
        /\ jobs[p[1]].outcome = "raised" /\ jobs[p[1]].exc \in ProtocolErrors
        /\ jobs[p[1]].phase = "done"
        /\ jobs[p[2]].outcome = "ok" /\ jobs[p[2]].pub.state /\ jobs[p[2]].phase = "done"
        /\ ~sw_acq_busy /\ ~zd_acq_busy

\* The errors start_action raises: the configuration errors and the
\* controller-protocol errors.
StartErrors == ConfigurationErrors \cup ProtocolErrors

\* C20 as stated: an error raised in the start of a software cycle is the
\* error run has raised to its caller.
C20_StartErrorSurfacesFromRun ==
    \A j \in DOMAIN jobs :
        jobs[j].kind = "sw" /\ jobs[j].exc \in StartErrors => run_error = jobs[j].exc

\* C20 amended: an error raised in the start of a software cycle is caught
\* in the dispatched callable: nothing leaves the callable, it returns False,
\* the cycle has published nothing; and what run has raised to its caller
\* changes only in a call of run.
C20_StartErrorIsContained ==
    /\ [](\A j \in DOMAIN jobs :
             jobs[j].kind = "sw" /\ jobs[j].exc \in StartErrors =>
               /\ jobs[j].outcome = "raised" /\ jobs[j].escaped = None
               /\ jobs[j].ret = FALSE
               /\ jobs[j].pub = NoPub)
    /\ [][run_error' # run_error => nruns' # nruns]_vars

\* A software cycle whose cached keywords carry both an integration time and
\* a monitor count has raised the configuration error in its start, and the
\* run that cached them returned without an error.
C20_Witness ==
    \E j \in DOMAIN jobs :
        /\ jobs[j].kind = "sw" /\ jobs[j].exc \in ConfigurationErrors
        /\ jobs[j].phase = "done" /\ run_error = None

\* ---- PoolAcquisition.run (Spec) ----

\* C17: a call of run in which the start of the hardware sub-acquisition did
\* not fail starts the hardware sub-acquisition exactly when the hardware
\* subset of the split is not empty, adds the listener exactly when the
\* software or the ZeroD subset is not empty, caches the software (ZeroD)
\* configuration exactly when that subset is not empty, and starts the
\* trigger generator.
C17_RunDistributes ==
    run_did.called /\ run_did.hw_exc = None =>
        /\ run_did.hw <=> run_did.hw_part # {}
        /\ run_did.listener <=> (run_did.sw_part # {} \/ run_did.zd_part # {})
        /\ run_did.sw <=> run_did.sw_part # {}
        /\ run_did.zd <=> run_did.zd_part # {}
        /\ run_did.tg

\* C19: a call of run in which the start of the hardware sub-acquisition
\* raised has raised that error to its caller, has not started the trigger
\* generator, has not added the listener and has cached neither
\* configuration; the step leaves the listener, the trigger generator and
\* the cached configurations as they were.
C19_HardwareStartFailureLeavesRun ==
    /\ [](run_did.called /\ run_did.hw_exc # None =>
             /\ run_error = run_did.hw_exc
             /\ run_did.hw_part # {}
             /\ ~run_did.hw /\ ~run_did.tg /\ ~run_did.listener
             /\ ~run_did.sw /\ ~run_did.zd)
    /\ [][nruns' # nruns /\ run_did'.hw_exc # None =>
            UNCHANGED <<listener, tg_started, hw_started, sw_acq_config, zd_config>>]_vars

\* A run whose split had a hardware and a ZeroD controller met a falsy
\* PreLoadOne in the start of the hardware sub-acquisition.
C19_Witness ==
    /\ run_did.called /\ run_did.hw_exc = "PreLoadOne returned False"
    /\ run_did.hw_part # {} /\ run_did.zd_part # {}
    /\ run_error = "PreLoadOne returned False"

\* ---- the convergence (SpecConv) ----

\* The positions in the log of the calls of one kind on one element.
ConvCallsOn(e, call) ==
    {i \in DOMAIN conv_log : conv_log[i].element = e /\ conv_log[i].call = call}

\* C13: in the convergence of the hardware-triggered, software-triggered and
\* continuous-count loops, each call is made at most once on an element and
\* in this order: the state set without propagation, the final value
\* published, the pending operation cleared, the translated state published
\* with propagation. An element whose final read gave data has its value
\* published before its operation is cleared, and no element has a value
\* published after its final state.
C13_ConvergenceOrder ==
    \A e \in ConvElements :
      LET set0  == ConvCallsOn(e, "set_state_info_0")
          put   == ConvCallsOn(e, "put_value")
          clear == ConvCallsOn(e, "clear_operation")
          set2  == ConvCallsOn(e, "set_state_info_2")
      IN /\ \A S \in {set0, put, clear, set2} : Cardinality(S) <= 1
         /\ \A i \in put : \E j \in set0 : j < i
         /\ \A i \in clear :
               /\ \E j \in set0 : j < i
               /\ \A j \in put : j < i
               /\ conv_in.values[e] = "data" => put # {}
         /\ \A i \in set2 :
               /\ \E j \in clear : j < i
               /\ \A j \in put : j < i

\* A software-triggered convergence over two elements with data has made all
\* its calls.
C13_Witness ==
    /\ conv_in.variant = "Software"
    /\ \A e \in ConvElements : conv_in.values[e] = "data"
    /\ conv_todo = {} /\ conv_cur = None
    /\ \A e \in ConvElements : ConvCallsOn(e, "put_value") # {}
                                 /\ ConvCallsOn(e, "set_state_info_2") # {}

\* ---- the phases of the load/start sequence (SpecStart) ----

\* The phase of start_action a controller call belongs to: one "for pool_ctrl
\* in pool_ctrls" loop each.
Phase(op) ==
    CASE op = "SetCtrlPar" -> "parameters"
      [] op \in {"PreLoadAll", "PreLoadOne", "LoadOne", "LoadAll"} -> "load"
      [] op = "PreStartAll" -> "PreStartAll"
      [] op \in StartOps -> "start"
      [] OTHER -> "StartAll"

\* The calls from PreLoadAll to StartAll.
SequenceCalls == {i \in DOMAIN calls : calls[i].op # "SetCtrlPar"}

\* C21 as stated: every call from PreLoadAll to StartAll on a controller
\* other than the master controller is issued before every such call on the
\* master controller.
C21_NonMasterFullyBeforeMaster ==
    \A i, j \in SequenceCalls :
        calls[i].ctrl = MasterCtrl /\ calls[j].ctrl # MasterCtrl => j < i

\* C21 amended: within each phase the calls on the other controllers come
\* before the calls on the master controller; the phases follow one another
\* over all controllers, so that a start of two or more controllers that ran
\* to its end has called the master controller (its load) before it called
\* another controller (its PreStartAll).
C21_MasterLastWithinEachPhase ==
    /\ \A i, j \in SequenceCalls :
          /\ Phase(calls[i].op) = Phase(calls[j].op)
          /\ calls[i].ctrl = MasterCtrl /\ calls[j].ctrl # MasterCtrl
          => j < i
    /\ st_pc = "done" /\ Len(pool_ctrls) >= 2 =>
          \E i, j \in SequenceCalls :
              /\ i < j /\ calls[i].ctrl = MasterCtrl /\ calls[j].ctrl # MasterCtrl
              /\ calls[i].op = "LoadAll" /\ calls[j].op = "PreStartAll"

\* A start of two timerable controllers ran to its end.
C21_Witness ==
    /\ st_pc = "done" /\ Len(pool_ctrls) = 2
    /\ \E i, j \in CallsOf("StartAll") : calls[i].ctrl # calls[j].ctrl

\* The phases in the order of the code.
PhaseOrder == <<"parameters", "load", "PreStartAll", "start", "StartAll">>

PhaseNo(op) == CHOOSE k \in DOMAIN PhaseOrder : PhaseOrder[k] = Phase(op)

\* The controllers one kind of call was issued to, in the order of the calls.
CtrlsCalled(op) ==
    LET s == SelectSeq(calls, LAMBDA c : c.op = op)
    IN [k \in DOMAIN s |-> s[k].ctrl]

\* The call before call i is the call 'op' on the same controller.
Follows(i, op) ==
    /\ i > 1
    /\ calls[i - 1].op = op /\ calls[i - 1].ctrl = calls[i].ctrl

\* C22: the calls of a start come in phases that do not overlap (SetCtrlPar
\* in ContHW, then load, PreStartAll, PreStartOne/StartOne, StartAll); within
\* the load phase a controller's PreLoadAll, PreLoadOne, LoadOne and LoadAll
\* are consecutive, and a StartOne directly follows the PreStartOne of its
\* axis. In a start that ran to its end every controller of the list got
\* PreLoadAll, PreLoadOne, LoadOne, LoadAll, PreStartAll and StartAll exactly
\* once, in list order, and every enabled channel, and no other, got
\* PreStartOne directly followed by its StartOne, once.
C22_PhasesDoNotOverlap ==
    /\ \A i, j \in DOMAIN calls :
          i < j => PhaseNo(calls[i].op) <= PhaseNo(calls[j].op)
    /\ \A i \in DOMAIN calls :
          /\ calls[i].op = "PreLoadOne" => Follows(i, "PreLoadAll")
          /\ calls[i].op = "LoadOne" =>
                Follows(i, "PreLoadOne") /\ calls[i - 1].axis = calls[i].axis
          /\ calls[i].op = "LoadAll" => Follows(i, "LoadOne")
          /\ calls[i].op = "PreLoadAll" /\ i > 1 /\ calls[i - 1].op # "SetCtrlPar" =>
                calls[i - 1].op = "LoadAll" /\ calls[i - 1].ctrl # calls[i].ctrl
          /\ calls[i].op = "StartOne" =>
                Follows(i, "PreStartOne") /\ calls[i - 1].axis = calls[i].axis
    /\ st_pc = "done" =>
          /\ \A op \in {"PreLoadAll", "PreLoadOne", "LoadOne", "LoadAll",
                        "PreStartAll", "StartAll"} : CtrlsCalled(op) = pool_ctrls
          /\ \A i \in CallsOf("PreStartOne") :
                /\ i < Len(calls) /\ calls[i + 1].op = "StartOne"
                /\ calls[i + 1].axis = calls[i].axis
          /\ \A c \in Range(pool_ctrls) : \A e \in DOMAIN Cfg.controllers[c].channels :
                Cardinality({i \in CallsOf("StartOne") : calls[i].axis = e})
                  = IF e \in EnabledChannels(c) THEN 1 ELSE 0

\* A start of two controllers ran to its end, started three channels or more
\* and passed over a channel that is not enabled.
C22_Witness ==
    /\ st_pc = "done" /\ Len(pool_ctrls) = 2
    /\ Cardinality(CallsOf("StartOne")) >= 3
    /\ \E c \in Range(pool_ctrls) :
          EnabledChannels(c) # DOMAIN Cfg.controllers[c].channels

\* ---- the channel states of the load/start sequence (SpecStart) ----

\* The channel was set to Moving with propagation.
SetMoving(e) == chan_state[e] = "Moving" /\ chan_prop[e] = 2

\* The channels of the timerable controllers of the configuration, enabled or
\* not.
CycleChannels == UNION {DOMAIN Cfg.controllers[c].channels : c \in TimerableCtrls}

\* C23: no StartAll is issued while a channel of the cycle has not been set
\* to Moving with propagation; once a channel was set to Moving no StartOne
\* is issued any more, and every StartOne of the enabled channels has been
\* issued; a start that ran to its end has set every channel of the cycle,
\* enabled or not.
C23_MovingBetweenStartOneAndStartAll ==
    /\ [](CallsOf("StartAll") # {} =>
            /\ DOMAIN chan_state = CycleChannels
            /\ \A e \in CycleChannels : SetMoving(e))
    /\ []((\E e \in DOMAIN chan_state : chan_state[e] = "Moving") =>
            \A c \in Range(pool_ctrls) : \A e \in EnabledChannels(c) :
                \E i \in CallsOf("StartOne") : calls[i].axis = e)
    /\ [][(\E e \in DOMAIN chan_state : chan_state[e] = "Moving") =>
            CallsOf("StartOne")' = CallsOf("StartOne")]_vars
    /\ [](st_pc = "done" => \A e \in CycleChannels : SetMoving(e))

\* A start ran to its end with a channel that is not enabled, which is
\* Moving like the enabled ones.
C23_Witness ==
    /\ st_pc = "done"
    /\ \E c \in Range(pool_ctrls) : \E e \in DOMAIN Cfg.controllers[c].channels :
          e \notin EnabledChannels(c) /\ SetMoving(e)

\* ---- the hardware access context of the load/start sequence (SpecStart) ----

\* C24: every controller call of the start was issued with the context held,
\* and the context is not held once the start has returned or raised.
C24_CallsInsideContextAndReleased ==
    /\ \A i \in DOMAIN calls : calls[i].ctx
    /\ st_pc \in {"done", "raised"} => ~ctx

\* A controller call raised after two controllers were loaded: the start has
\* raised and the context is released.
C24_Witness ==
    /\ st_pc = "raised" /\ error = "ControllerError" /\ ~ctx
    /\ Cardinality(CallsOf("LoadAll")) = 2
    /\ calls[Len(calls)].exc = "ControllerError"

\* ---- the poll loops (SpecLoop, SpecLoopFair) ----

\* The loop was left.
LoopLeft == lp_pc \in {"slaves", "final_value", "convergence", "done", "raised"}

\* C25: in every poll loop (Hardware, Software, CT, ContHW, ContSWCT) each
\* state read of the loop but the one that ends it found an element in
\* acquisition, the read that ends it found none, and the loop is left in a
\* step in which no element reports acquisition, whatever the stopped and
\* aborted flags are; once every element reports a state that is not
\* acquiring the loop ends and action_loop returns; and on return every
\* element has had its final state published with propagation exactly once.
C25_LoopEndsWhenNoElementAcquires ==
    /\ [](lp_pc = "loop" => \A k \in DOMAIN lp_sreads : lp_sreads[k] # {})
    /\ [](LoopLeft =>
            /\ lp_sreads # <<>> /\ lp_sreads[Len(lp_sreads)] = {}
            /\ \A k \in 1..(Len(lp_sreads) - 1) : lp_sreads[k] # {})
    /\ [][lp_pc = "loop" /\ lp_pc' # "loop" =>
            \A e \in ConvElements : ~is_in_action(hw_state[e])]_vars
    /\ (\A e \in ConvElements : hw_state[e] = "On") ~> (lp_pc = "done")
    /\ [](lp_pc = "done" =>
            \A e \in ConvElements :
                Cardinality(ConvCallsOn(e, "set_state_info_2")) = 1)

\* A loop in which the stop or the abort was requested went on while one
\* element alone was in acquisition, and has returned after the read that
\* found none.
C25_Witness ==
    /\ lp_pc = "done" /\ (lp_stopped \/ lp_aborted)
    /\ Len(lp_sreads) = 3
    /\ Cardinality(lp_sreads[1]) = 2 /\ Cardinality(lp_sreads[2]) = 1

\* The loops with an incremental value read.
CadenceVariants == {"Hardware", "CT", "ContHW"}

\* The iterations so far, counted from 0, whose state read found an element
\* in acquisition.
RunningIterations == {i \in 0..(Len(lp_sreads) - 1) : lp_sreads[i + 1] # {}}

\* C26: in the hardware-triggered and continuous-count loops the values were
\* read in exactly the iterations whose state read found an element in
\* acquisition and whose number, counted from 0, is a multiple of
\* nb_states_per_value; what such a read gave was handed to put_value with
\* its default propagation, not as a final value; and after the loop the
\* states are read once and then the values once.
C26_IncrementalReadCadence ==
    lp_in.variant \in CadenceVariants =>
      /\ lp_vreads = {i \in RunningIterations : i % lp_in.n = 0}
      /\ \A p \in lp_pubs : p.stage = "incremental" => p.propagate = "default"
      /\ lp_final = CASE lp_pc \in {"convergence", "done"} -> <<"state", "value">>
                      [] lp_pc = "final_value" -> <<"state">>
                      [] OTHER -> <<>>

\* A continuous-count loop that reads the values every second time has read
\* them in the iterations 0 and 2, not in iteration 1, and has returned.
C26_Witness ==
    /\ lp_in.variant = "CT" /\ lp_in.n = 2 /\ lp_pc = "done"
    /\ RunningIterations = {0, 1, 2} /\ lp_vreads = {0, 2}
    /\ \E p \in lp_pubs : p.stage = "incremental"

\* The calls of the convergence made on one element, in order.
ConvCallsOf(e) ==
    LET s == SelectSeq(conv_log, LAMBDA c : c.element = e)
    IN [k \in DOMAIN s |-> s[k].call]

\* C27: in the continuous-count loops (CT, ContHW) the slaves are asked to
\* stop after the loop was left, each once and in their order, all of them
\* before the final read, whether the stop of one of them raised or not;
\* nothing a slave's stop raises leaves action_loop: once the loop is left
\* action_loop goes on to its return, and by then the convergence has made
\* its calls on every element.
C27_SlavesStoppedBeforeFinalRead ==
    /\ [](lp_in.variant \in {"CT", "ContHW"} =>
            /\ lp_pc # "raised"
            /\ lp_stops # <<>> => LoopLeft
            /\ Len(lp_stops) <= Len(lp_in.slaves)
            /\ \A k \in DOMAIN lp_stops : lp_stops[k].slave = lp_in.slaves[k]
            /\ lp_final # <<>> => Len(lp_stops) = Len(lp_in.slaves)
            /\ lp_pc = "done" =>
                 /\ lp_final = <<"state", "value">>
                 /\ \A e \in ConvElements :
                      ConvCallsOf(e) = convergence(lp_in.variant, conv_in.values[e]))
    /\ (lp_in.variant \in {"CT", "ContHW"} /\ lp_pc = "slaves") ~> (lp_pc = "done")

\* The stop of the first of two slaves raised, the second was asked to stop
\* all the same, and action_loop has returned.
C27_Witness ==
    /\ lp_pc = "done" /\ Len(lp_stops) = 2
    /\ lp_stops[1].exc = "StopError" /\ lp_stops[2].exc = None

\* C28 as stated: a continuous-count loop (CT, ContHW) hands no value with
\* an empty payload to put_value, neither from the read before the loop, nor
\* from a read in the loop, nor from the final read.
C28_NoEmptyPayloadPublished ==
    lp_in.variant \in {"CT", "ContHW"} =>
      /\ \A p \in lp_pubs : p.kind # "empty"
      /\ \A k \in DOMAIN conv_log :
            conv_log[k].call = "put_value" =>
              conv_in.values[conv_log[k].element] # "empty"

\* ---- Pool0DAcquisition (SpecZero) ----

\* The controllers of the configuration with the ZeroD type among their
\* types.
IntegratingCtrls ==
    {c \in zd_in.controllers : \E k \in DOMAIN get_ctrl_types(c) :
                                  get_ctrl_types(c)[k] = "ZeroDExpChannel"}

\* C29: start_action of the ZeroD integrator leaves both flags false,
\* whatever they were; from then on the channel set is the channels of
\* exactly the controllers of the ZeroD type in the configuration, whatever
\* it held before; when the loop begins every channel of the set has an
\* empty buffer and is Moving, set with propagation; and no controller call
\* of the load/start sequence is issued.
C29_ZeroDStartResetsAndClears ==
    /\ [][zd_pc = "start" /\ zd_pc' # "start" => ~zd_stopped' /\ ~zd_aborted']_vars
    /\ [](zd_pc \notin {"idle", "start"} =>
            zd_channels = UNION {ZeroChannelsOf(c) : c \in IntegratingCtrls})
    /\ [](zd_pc = "loop" /\ zd_samples = 0 =>
            \A e \in zd_channels :
                /\ zd_buffer[e] = <<>>
                /\ zd_chan[e] = [state |-> "Moving", propagate |-> 2])
    /\ [](calls = <<>>)

\* A start with a counter/timer controller, a ZeroD controller and a
\* controller of both types has built the set of the three ZeroD channels
\* and cleared their buffers, which held a sample of an earlier cycle (as
\* the counter channel's still does), and the loop is about to begin.
C29_Witness ==
    /\ zd_pc = "loop" /\ zd_samples = 0
    /\ zd_in.controllers = {"p1", "p2", "p3"}
    /\ zd_channels = {"d1", "d2", "m1"}
    /\ zd_buffer["k1"] # <<>> /\ zd_buffer["m1"] = <<>>

\* The entries of the log with one call.
ZeroCalls(call) == {i \in DOMAIN zd_log : zd_log[i].call = call}

\* The loop was left.
ZeroLoopLeft == zd_pc \in {"propagate", "convergence", "done"}

\* Entry i of the log is the call on the single element e with the
\* propagation.
ZeroIs(i, call, e, propagate) ==
    /\ zd_log[i].call = call /\ zd_log[i].element = {e}
    /\ zd_log[i].propagate = propagate

\* C30: every sample is given to the channels of the cycle with the trigger
\* index of the cycle and without propagation; the flags are looked at in
\* the step that has sampled, so that a cycle that left its loop has sampled
\* once at least, and it leaves the loop at the first sample after which a
\* flag is set, the stopped flag or the aborted flag alike; when action_loop
\* returns the log is: the samples, then one propagate_value per channel,
\* then the read of the states, then for one channel after the other the
\* state set without propagation, the operation cleared, the state set with
\* propagation.
C30_ZeroDSamplesThenConverges ==
    /\ [](\A i \in ZeroCalls("put_value") :
            /\ zd_log[i].index = zd_in.idx /\ zd_log[i].propagate = 0
            /\ zd_log[i].element = zd_channels
            /\ i <= zd_samples)
    /\ [](zd_pc \in {"loop", "propagate", "convergence", "done"} =>
            \A e \in zd_channels :
                zd_buffer[e] = [k \in 1..zd_samples |->
                                   [index |-> zd_in.idx, propagate |-> 0]])
    /\ [](ZeroLoopLeft => zd_samples >= 1 /\ Cardinality(ZeroCalls("put_value")) = zd_samples)
    /\ [][zd_pc = "loop" /\ zd_samples' # zd_samples =>
            /\ zd_samples' = zd_samples + 1
            /\ (zd_pc' = "propagate") = (zd_stopped \/ zd_aborted)]_vars
    /\ [][zd_pc = "loop" /\ zd_pc' # "loop" => zd_samples' = zd_samples + 1]_vars
    /\ [](zd_pc = "done" =>
            LET n == zd_samples
                m == Cardinality(zd_channels)
            IN /\ Len(zd_log) = n + m + 1 + 3 * m
               /\ \A e \in zd_channels :
                     /\ \E i \in (n + 1)..(n + m) : ZeroIs(i, "propagate_value", e, 1)
                     /\ \E k \in 0..(m - 1) :
                          LET i == n + m + 2 + 3 * k
                          IN /\ ZeroIs(i, "set_state_info", e, 0)
                             /\ ZeroIs(i + 1, "clear_operation", e, 0)
                             /\ ZeroIs(i + 2, "set_state_info", e, 2)
               /\ zd_log[n + m + 1].call = "raw_read_state_info")

\* A cycle of three channels whose abort, not its stop, was requested before
\* the loop began has taken its one sample and returned.
C30_Witness ==
    /\ zd_pc = "done" /\ zd_aborted /\ ~zd_stopped
    /\ zd_samples = 1 /\ Cardinality(zd_channels) = 3

\* The trigger/gate elements the controllers of the input refer to.
Referenced == Range(tg_in) \ {None}

\* The position of the first controller entry that refers to the element.
FirstReference(t) == CHOOSE i \in DOMAIN tg_in :
                        tg_in[i] = t /\ \A j \in 1..(i - 1) : tg_in[j] # t

GotTGConfiguration == pure_op = "getTGConfiguration" /\ pure_pc = "done"

\* C31: getTGConfiguration returns a list holding each trigger/gate element
\* referenced by at least one controller exactly once, in order of first
\* reference, controllers without a trigger element contributing nothing; and
\* a configuration in which every such element appears exactly once, under
\* the controller that owns it, and in which no controller without a
\* referenced element appears.
C31_TGConfigurationDistinctAndGrouped ==
    GotTGConfiguration =>
        LET l == tg_out.tg_elements
            ctrls == tg_out.TGcfg.controllers
        IN /\ Range(l) = Referenced
           /\ \A i, j \in DOMAIN l : l[i] = l[j] => i = j
           /\ \A i, j \in DOMAIN l :
                 i < j => FirstReference(l[i]) < FirstReference(l[j])
           /\ \A t \in Referenced :
                 {c \in DOMAIN ctrls : t \in DOMAIN ctrls[c].channels}
                    = {get_controller(t)}
           /\ DOMAIN ctrls = {get_controller(t) : t \in Referenced}
           /\ \A c \in DOMAIN ctrls : DOMAIN ctrls[c].channels \subseteq Referenced

\* Three controllers: the first and the third refer to the same element of
\* one trigger controller, the second to an element of another one whose
\* first reference comes later; the element referred to twice is listed once,
\* first.
C31_Witness ==
    /\ GotTGConfiguration
    /\ tg_in = <<"tg3", "tg1", "tg3">>
    /\ tg_out.tg_elements = <<"tg3", "tg1">>
    /\ DOMAIN tg_out.TGcfg.controllers = {"tc1", "tc2"}

\* The calls of event_received, running or returned.
Calls == {ev[s] : s \in Sources} \cup
         {[pc |-> "returned"] @@ handled[i] : i \in DOMAIN handled}

\* C32: the busy check and the busy set of event_received are two separate
\* steps: two cycles of one debounced sub-acquisition are in flight at once
\* only after two concurrently delivered Active events both found its gate
\* idle, the second call setting the flag the first had set already, and both
\* dispatched; with one event source at a time this does not happen.
C32_DoubleDispatchOnlyByRacingCalls ==
    \A kind \in Kinds :
        Cardinality(InFlight(kind)) >= 2 =>
            \E c \in Calls : kind \in c.raced /\ c.type = "Active"

\* Two Active events of two sources both found the software gate idle and
\* both dispatched: two software cycles are in flight, and one of the calls
\* set the flag the other had set.
C32_Witness ==
    /\ Cardinality(InFlight("sw")) = 2
    /\ \E i, k \in DOMAIN handled :
          /\ i # k
          /\ "sw" \in handled[i].dispatched /\ "sw" \in handled[k].dispatched
          /\ "sw" \in handled[k].raced /\ "sw" \notin handled[i].raced

\* The calls of one kind issued on one axis of one controller.
AxisCalls(op, c, e) == {i \in CallsOf(op) : calls[i].ctrl = c /\ calls[i].axis = e}

StartSucceeded == st_pc = "done" /\ error = None

\* C33: in a successful start every enabled channel of every timerable
\* controller receives exactly one PreStartOne, followed at once by its one
\* StartOne, and a channel whose enabled flag is false receives neither,
\* also when it is the controller's timer/monitor channel.
C33_EnabledChannelsStartedOnce ==
    StartSucceeded =>
        \A c \in TimerableCtrls : \A e \in DOMAIN Cfg.controllers[c].channels :
            IF e \in EnabledChannels(c)
            THEN /\ Cardinality(AxisCalls("PreStartOne", c, e)) = 1
                 /\ Cardinality(AxisCalls("StartOne", c, e)) = 1
                 /\ \A i \in AxisCalls("PreStartOne", c, e) :
                       (i + 1) \in AxisCalls("StartOne", c, e)
            ELSE /\ AxisCalls("PreStartOne", c, e) = {}
                 /\ AxisCalls("StartOne", c, e) = {}

\* A successful start of two timerable controllers in which the master
\* channel of one is disabled and was not started, while its other channel
\* and a channel of the other controller were.
C33_Witness ==
    /\ StartSucceeded
    /\ TimerableCtrls = {"c1", "c2"}
    /\ \E c \in TimerableCtrls :
          /\ MasterOf(Cfg.controllers[c]) \notin EnabledChannels(c)
          /\ EnabledChannels(c) # {}
          /\ \A e \in EnabledChannels(c) : AxisCalls("StartOne", c, e) # {}
    /\ Cardinality(CallsOf("StartOne")) >= 2

\* C34: in the coordinator's run the trigger generator is started last:
\* when it has been started the hardware sub-acquisition of the run has been
\* started (if the hardware subset is not empty), the coordinator listens (if
\* the software or the ZeroD subset is not empty) and the software and ZeroD
\* configurations of the run are cached; so the first trigger event of a
\* first run finds the configurations of that run cached and the hardware
\* started.
C34_TriggerGeneratorStartedLast ==
    /\ run_did.tg =>
          /\ run_did.hw_part # {} => run_did.hw /\ hw_started
          /\ run_did.sw_part # {} \/ run_did.zd_part # {} =>
                run_did.listener /\ listener
          /\ run_did.sw_part # {} =>
                run_did.sw /\ Truthy(sw_acq_config)
                           /\ sw_acq_config.ctrls = run_did.sw_part
          /\ run_did.zd_part # {} =>
                run_did.zd /\ Truthy(zd_config) /\ zd_config.ctrls = run_did.zd_part
    /\ \A c \in Calls :
          nruns = 1 /\ c.type # None /\ c.id = 1 =>
             /\ run_did.tg
             /\ c.sw_ready <=> run_did.sw_part # {}
             /\ c.zd_ready <=> run_did.zd_part # {}

\* A run with a hardware and a ZeroD subset started the hardware
\* sub-acquisition, registered the listener, cached the ZeroD configuration
\* and started the trigger generator; the first Active event then dispatched
\* a ZeroD cycle.
C34_Witness ==
    /\ nruns = 1 /\ run_did.tg /\ run_did.hw /\ run_did.zd /\ run_did.listener
    /\ \E i \in DOMAIN handled :
          /\ handled[i].id = 1 /\ handled[i].type = "Active"
          /\ "zd" \in handled[i].dispatched

\* The subset of the most recent run's configuration for a sub-acquisition.
RunPart(kind) == IF kind = "sw" THEN run_did.sw_part ELSE run_did.zd_part

\* The step hands a cycle of the sub-acquisition to the worker pool.
Dispatches(kind) ==
    /\ Len(jobs') = Len(jobs) + 1
    /\ jobs'[Len(jobs')].kind = kind

\* C35: across the runs of one coordinator an Active event dispatches a
\* software (resp. ZeroD) cycle only if the software (resp. ZeroD) subset of
\* the most recent run's configuration is not empty, and the cycle carries
\* the controllers of that subset; after a run whose subset is empty no cycle
\* of that sub-acquisition is dispatched. (Stated for dispatches made while
\* no run is in progress and the most recent run ended without an exception.)
C35_DispatchFollowsMostRecentRun ==
    [][\A kind \in Kinds :
          Dispatches(kind) /\ run_pc.at = "idle" /\ run_error = None =>
             /\ RunPart(kind) # {}
             /\ jobs'[Len(jobs')].ctrls = RunPart(kind)]_vars

\* The poll loop has been left and its loop over self._slaves is over.
SlavesGoneThrough == lp_pc \in {"final_value", "convergence", "done"}

\* The slaves that were asked to stop.
StopRequested == {lp_stops[i].slave : i \in DOMAIN lp_stops}

\* C36: for every continuous-count variant that accepts a slave list at
\* construction (PoolCTAcquisition, PoolContHWAcquisition,
\* PoolContSWCTAcquisition), each slave passed to the constructor is
\* requested to stop when that instance's poll loop exits.
C36_ConstructorSlavesStopped ==
    SlavesGoneThrough /\ ~IsNone(lp_in.given) =>
        \A i \in DOMAIN lp_in.given[1] : lp_in.given[1][i] \in StopRequested

\* None of the elements of the action is in operation any more.
IORNoElementInAction ==
    /\ ~IsNone(ior_channels)
    /\ \A e \in ior_channels[1] : ~is_in_action(ior_state[e])

\* C37: the action loop of PoolIORAcquisition terminates once its elements
\* are no longer in acquisition, and then registers the finish hook that
\* publishes the final values and afterwards the final states with
\* propagation.
C37_IORLoopEndsAndRegistersHook ==
    (ior_pc = "loop" /\ IORNoElementInAction) ~> (ior_pc = "done" /\ ior_hook)

====
